---- MODULE Spec2Model ----
(***************************************************************************)
(* Exercise-group reconciliation of unboxerscorp/utility.                  *)
(*                                                                         *)
(*  - the resolver (inbrain-exercise-uploader/main.go, second program):    *)
(*    processGroups / worker / processGroup and the pure helpers;          *)
(*  - the applier (inbrain-exercise-uploader/csv_uploader/main.go):        *)
(*    uploadResults / processBatch / processResult and the statements      *)
(*    they run against the store;                                          *)
(*  - the exercise uploader (inbrain-exercise-uploader/main.go, first      *)
(*    program): processExercises / processExercise, and the sequence file  *)
(*    of getOrAssignSequence;                                              *)
(*  - the session creator (inbrain-session-creator/file.go):               *)
(*    updateExerciseSolutionWithVideoID.                                   *)
(*                                                                         *)
(* The programs share the module; each specification keeps the other      *)
(* programs' variables at their idle value:                                *)
(*   SpecResolver      the worker pool of processGroups;                   *)
(*   SpecResolverPool  the same pool on snapshots whose groups can tie;    *)
(*   FairSpecResolver  the pool under a fair scheduler (termination);      *)
(*   SpecProcessGroup  buildProblemIndex and one call of processGroup on   *)
(*                     every small snapshot and grouping;                  *)
(*   SpecScenario      the same call on the two-group scenario snapshots;  *)
(*   SpecApplier       one run of uploadResults;                           *)
(*   SpecChunks        one run on artifacts of up to three chunks;         *)
(*   SpecRerun         two runs of uploadResults on the same artifact;     *)
(*   SpecUploader      one run of processExercises;                        *)
(*   SpecSequence      calls of getOrAssignSequence from an absent file;   *)
(*   SpecSession       calls of updateExerciseSolutionWithVideoID.         *)
(***************************************************************************)
EXTENDS Integers, Sequences, FiniteSets, TLC

\* ------------------------------------------------------------------ bounds
\* Problem ids are 1..MaxProblemID (0 is the "none" value of the code).
MaxProblemID == 2
\* Workers of the resolver pool (numWorkers is 8 in the code).
NumWorkers == 2
\* Largest number of proposed groupings in one resolver run.
MaxGroupings == 2

Problems == 1..MaxProblemID

\* ----------------------------------------------------------------- helpers
Range(s) == {s[k] : k \in DOMAIN s}

\* The sequences without repetition over S of length at most n.
RECURSIVE DistinctSeqs(_, _)
DistinctSeqs(S, n) ==
    IF n = 0 THEN {<<>>}
    ELSE LET shorter == DistinctSeqs(S, n - 1)
         IN  shorter \cup
             UNION {{Append(s, x) : x \in S \ Range(s)} :
                        s \in {t \in shorter : Len(t) = n - 1}}

\* The sequences over S of length at most n.
RECURSIVE SeqsUpTo(_, _)
SeqsUpTo(S, n) ==
    IF n = 0 THEN {<<>>}
    ELSE LET shorter == SeqsUpTo(S, n - 1)
         IN  shorter \cup {Append(s, x) : s \in shorter, x \in S}

\* The orders in which a Go map with key set S can be iterated.
Orders(S) ==
    {f \in [1..Cardinality(S) -> S] : \A x \in S : \E k \in DOMAIN f : f[k] = x}

\* The largest element of a non-empty sequence of integers, as the loops
\* "highest := s[0]; for id in s { if id > highest { highest = id } }" find it.
RECURSIVE Highest(_, _)
Highest(s, highest) ==
    IF s = <<>> THEN highest
    ELSE Highest(Tail(s), IF Head(s) > highest THEN Head(s) ELSE highest)

(***************************************************************************)
(*                              THE RESOLVER                               *)
(***************************************************************************)
VARIABLES
    existingGroups,   \* snapshot: group id -> ExerciseGroup (read-only)
    problemIndex,     \* reverse index: problem id -> group ids (read-only)
    newGroups,        \* the proposed groupings (read-only)
    nextGroupID,      \* the counter shared by the workers (*nextGroupID)
    jobs,             \* buffered channel of grouping indices
    jobsClosed,       \* close(jobs) has run
    resultsChan,      \* buffered channel of CrossingResult
    resultsClosed,    \* close(resultsChan) has run
    wg,               \* sync.WaitGroup counter
    workers,          \* per worker: pc and locals of worker/processGroup
    sent,             \* number of indices the caller has put on jobs
    mpc,              \* position of processGroups' caller goroutine
    results           \* the slice processGroups collects and returns

resolverVars == <<existingGroups, problemIndex, newGroups, nextGroupID, jobs,
                  jobsClosed, resultsChan, resultsClosed, wg, workers, sent,
                  mpc, results>>

\* The applier's state.
VARIABLES
    db,           \* the committed store: exercise_groups and exercises rows
    tx,           \* the store as the open transaction sees it
    nextval,      \* the id sequence of exercise_groups (not transactional)
    artifact,     \* the []CrossingResult uploadResults is given
    i,            \* uploadResults' loop variable: start of the current chunk
    done,         \* records of the current chunk processResult has returned for
    apc,          \* position of uploadResults/processBatch
    chunkStart,   \* history: the committed store when the chunk's BeginTx ran
    last,         \* history: the last processResult call and its steps
    runs,         \* history: the committed store at each nil return of
                  \* uploadResults, one entry per completed run
    opened        \* history: the batches processBatch was called on and got
                  \* a transaction for, as <<first, last>> record positions

applierVars == <<db, tx, nextval, artifact, i, done, apc, chunkStart, last,
                 runs, opened>>

\* The exercise uploader's state (processExercises, first program of
\* inbrain-exercise-uploader/main.go).
VARIABLES
    edb,           \* the committed store: categories, exercise_groups, exercises
    etx,           \* the store as the open transaction sees it
    groupSeq,      \* the id sequence of exercise_groups (not transactional)
    exerciseSeq,   \* the id sequence of exercises (not transactional)
    jsonProblems,  \* the problems processExercises is given
    epos,          \* number of problems the loop has finished with
    epc,           \* position of processExercises
    ecall,         \* history: the last processExercise call
    settled        \* history: the committed store after each problem

uploaderVars == <<edb, etx, groupSeq, exerciseSeq, jsonProblems, epos, epc,
                  ecall, settled>>

\* The sequence file of one category (getOrAssignSequence).
VARIABLES
    sequenceFile,  \* the lines of the file; Absent when there is no file
    calls,         \* history: the calls made, with what each returned
    qpc            \* "idle", "ready" or "panic"

sequenceVars == <<sequenceFile, calls, qpc>>

\* The session creator's state (updateExerciseSolutionWithVideoID).
VARIABLES
    solutions,          \* exercises.solution_video_id by exercise id
    forceReplaceVideo,  \* the -force-replace-video option
    update,             \* history: the last call and what it returned
    vpc                 \* "idle" or "ready"

sessionVars == <<solutions, forceReplaceVideo, update, vpc>>

toolVars == <<uploaderVars, sequenceVars, sessionVars>>

vars == <<resolverVars, applierVars, toolVars>>

Workers == 1..NumWorkers

\* SelectionReason strings of the resolver (main.go:1165, 1197, 1201, 1222,
\* 1224, 1226), as ASCII tags.
ReasonEmpty == "empty group"
ReasonRepWithVideo == "existing representative in new group (has video)"
ReasonRepCarried == "existing representative in new group"
ReasonNoCrossing == "no crossing - highest id"
ReasonNoRepresentative == "no existing representative - highest id"
ReasonRepNotInGroup == "existing representative not in new group - highest id"

\* One ExerciseGroup of the snapshot.  ProblemVideos is loaded but never read
\* by the resolver, so it is not carried.
ExerciseGroup(id, problemIDs, rep, hasRep, repHasVideo) ==
    [ID |-> id, ProblemIDs |-> problemIDs, Representative |-> rep,
     HasRepresentative |-> hasRep, RepresentativeHasVideo |-> repHasVideo]

\* Faulty variant of buildProblemIndex: only the first problem of each group
\* is indexed.
indexFirstProblems(groups) ==
    [p \in {groups[g].ProblemIDs[1] :
               g \in {h \in DOMAIN groups : groups[h].ProblemIDs # <<>>}} |->
        {groups[g].ID : g \in {h \in DOMAIN groups :
                                  /\ groups[h].ProblemIDs # <<>>
                                  /\ groups[h].ProblemIDs[1] = p}}]

\* buildProblemIndex: index[p] lists group.ID of every group with p among its
\* ProblemIDs.  The list is only ever ranged over to fill a set, so it is
\* kept as the set of its elements.
buildProblemIndex(groups) ==
    [p \in UNION {Range(groups[g].ProblemIDs) : g \in DOMAIN groups} |->
        {groups[g].ID : g \in {h \in DOMAIN groups :
                                  p \in Range(groups[h].ProblemIDs)}}]

\* Faulty variant of findIntersection: the loop without the "seen" map.
findIntersectionKeepRepeats(slice1, slice2) ==
    SelectSeq(slice2, LAMBDA v : v \in Range(slice1))

\* findIntersection: the loop over slice2 with the "seen" map.
RECURSIVE findIntersectionLoop(_, _, _, _)
findIntersectionLoop(elementMap, rest, seen, intersection) ==
    IF rest = <<>> THEN intersection
    ELSE LET v == Head(rest)
         IN  IF v \in elementMap /\ v \notin seen
             THEN findIntersectionLoop(elementMap, Tail(rest), seen \cup {v},
                                       Append(intersection, v))
             ELSE findIntersectionLoop(elementMap, Tail(rest), seen,
                                       intersection)

findIntersection(slice1, slice2) ==
    findIntersectionLoop(Range(slice1), slice2, {}, <<>>)

\* getMaxGroupID: the largest key of the map, 0 for an empty (or all
\* non-positive) map.
getMaxGroupID(groups) ==
    IF \E id \in DOMAIN groups : id > 0
    THEN CHOOSE id \in DOMAIN groups : \A other \in DOMAIN groups : other <= id
    ELSE 0

\* Faulty variant of selectBestFromNewGroup: "highest := newGroup[0]" without
\* the loop that raises it.
selectFirstOfNewGroup(newGroup, crossingGroups, existingRepresentatives) ==
    [Representative |-> newGroup[1],
     SelectionReason |->
        IF Len(crossingGroups) = 0 THEN ReasonNoCrossing
        ELSE IF Len(existingRepresentatives) = 0 THEN ReasonNoRepresentative
        ELSE ReasonRepNotInGroup]

\* Faulty variant of selectBestFromNewGroup: when the crossed groups have
\* representatives the first of them is returned, member of the grouping or
\* not.
selectBestFromExisting(newGroup, crossingGroups, existingRepresentatives) ==
    [Representative |->
        IF Len(existingRepresentatives) > 0
        THEN existingRepresentatives[1].ProblemID
        ELSE Highest(newGroup, newGroup[1]),
     SelectionReason |->
        IF Len(crossingGroups) = 0 THEN ReasonNoCrossing
        ELSE IF Len(existingRepresentatives) = 0 THEN ReasonNoRepresentative
        ELSE ReasonRepNotInGroup]

\* selectBestFromNewGroup: the highest id of the grouping; the reason names
\* the sub-case.
selectBestFromNewGroup(newGroup, crossingGroups, existingRepresentatives) ==
    [Representative |-> Highest(newGroup, newGroup[1]),
     SelectionReason |->
        IF Len(crossingGroups) = 0 THEN ReasonNoCrossing
        ELSE IF Len(existingRepresentatives) = 0 THEN ReasonNoRepresentative
        ELSE ReasonRepNotInGroup]

\* Faulty variant of collectRepresentatives: the first problem of each
\* crossed group stands for its representative.
collectFirstProblems(crossingGroups, existingGroups0) ==
    LET withRep == SelectSeq(crossingGroups, LAMBDA c :
                       /\ c.ID \in DOMAIN existingGroups0
                       /\ existingGroups0[c.ID].HasRepresentative
                       /\ existingGroups0[c.ID].ProblemIDs # <<>>)
    IN  [k \in DOMAIN withRep |->
            [ProblemID |-> existingGroups0[withRep[k].ID].ProblemIDs[1],
             HasSolutionVideo |->
                 existingGroups0[withRep[k].ID].RepresentativeHasVideo]]

\* The representatives of the crossed groups, in crossingGroups order.
collectRepresentatives(crossingGroups, existingGroups0) ==
    LET withRep == SelectSeq(crossingGroups, LAMBDA c :
                       /\ c.ID \in DOMAIN existingGroups0
                       /\ existingGroups0[c.ID].HasRepresentative
                       /\ existingGroups0[c.ID].Representative > 0)
    IN  [k \in DOMAIN withRep |->
            [ProblemID |-> existingGroups0[withRep[k].ID].Representative,
             HasSolutionVideo |->
                 existingGroups0[withRep[k].ID].RepresentativeHasVideo]]

\* Faulty variant of candidateRepresentatives: the representatives are not
\* filtered by membership in the grouping.
unfilteredRepresentatives(reps, newGroup) == reps

\* The double loop that fills candidateRepresentatives: one copy of rep for
\* every position of newGroup that holds rep.ProblemID.
RECURSIVE candidateRepresentatives(_, _)
candidateRepresentatives(reps, newGroup) ==
    IF reps = <<>> THEN <<>>
    ELSE LET hits == SelectSeq(newGroup, LAMBDA p : p = Head(reps).ProblemID)
         IN  [k \in DOMAIN hits |-> Head(reps)]
             \o candidateRepresentatives(Tail(reps), newGroup)

\* Faulty variant of selectBestRepresentative: the first candidate is returned
\* without looking for one with a video.
selectFirstCandidate(newGroup, crossingGroups, existingGroups0) ==
    IF Len(newGroup) = 0
    THEN [Representative |-> 0, SelectionReason |-> ReasonEmpty]
    ELSE
      LET existingRepresentatives ==
              collectRepresentatives(crossingGroups, existingGroups0)
          candidates ==
              candidateRepresentatives(existingRepresentatives, newGroup)
      IN  IF Len(candidates) > 0
          THEN [Representative |-> candidates[1].ProblemID,
                SelectionReason |-> ReasonRepCarried]
          ELSE selectBestFromNewGroup(newGroup, crossingGroups,
                                      existingRepresentatives)

\* selectBestRepresentative of the resolver.
selectBestRepresentative(newGroup, crossingGroups, existingGroups0) ==
    IF Len(newGroup) = 0
    THEN [Representative |-> 0, SelectionReason |-> ReasonEmpty]
    ELSE
      LET existingRepresentatives ==
              collectRepresentatives(crossingGroups, existingGroups0)
          candidates ==
              candidateRepresentatives(existingRepresentatives, newGroup)
          withVideo == SelectSeq(candidates, LAMBDA r : r.HasSolutionVideo)
      IN  IF Len(candidates) > 0
          THEN IF Len(withVideo) > 0
               THEN [Representative |-> withVideo[1].ProblemID,
                     SelectionReason |-> ReasonRepWithVideo]
               ELSE [Representative |-> candidates[1].ProblemID,
                     SelectionReason |-> ReasonRepCarried]
          ELSE selectBestFromNewGroup(newGroup, crossingGroups,
                                      existingRepresentatives)

\* Faulty variant of relatedGroupIDs: only the first problem of the grouping
\* is looked up in the index.
relatedOfFirstProblem(newGroup, index) ==
    UNION {index[p] : p \in {newGroup[1]} \cap DOMAIN index}

\* The ids of the existing groups that hold some problem of the grouping.
relatedGroupIDs(newGroup, index) ==
    UNION {index[p] : p \in Range(newGroup) \cap DOMAIN index}

\* The loop over relatedGroupIDs, visited in the given map order.
RECURSIVE crossingLoop(_, _, _, _)
crossingLoop(newGroup, order, existingGroups0, acc) ==
    IF order = <<>> THEN acc
    ELSE LET groupID == Head(order)
             intersection ==
                 IF groupID \in DOMAIN existingGroups0
                 THEN findIntersection(newGroup,
                                       existingGroups0[groupID].ProblemIDs)
                 ELSE <<>>
         IN  IF Len(intersection) > 0
             THEN crossingLoop(newGroup, Tail(order), existingGroups0,
                     [crossingGroups |->
                          Append(acc.crossingGroups,
                                 [ID |-> groupID, Intersection |-> intersection]),
                      baseGroupID |->
                          IF groupID > acc.baseGroupID THEN groupID
                          ELSE acc.baseGroupID])
             ELSE crossingLoop(newGroup, Tail(order), existingGroups0, acc)

\* Faulty variant of findCrossingGroups: "baseGroupID = groupID" without the
\* comparison, so the base id is the id of the group visited last.
findCrossingGroupsLastBase(newGroup, order, existingGroups0) ==
    LET found == crossingLoop(newGroup, order, existingGroups0,
                              [crossingGroups |-> <<>>, baseGroupID |-> 0])
        list == found.crossingGroups
    IN  [crossingGroups |-> list,
         baseGroupID |-> IF list = <<>> THEN 0 ELSE list[Len(list)].ID]

\* processGroup up to the id assignment: the crossing groups and the base id.
findCrossingGroups(newGroup, order, existingGroups0) ==
    crossingLoop(newGroup, order, existingGroups0,
                 [crossingGroups |-> <<>>, baseGroupID |-> 0])

\* Faulty variant of CrossingResult: the representative is the highest id of
\* the grouping whatever the crossing groups are.
CrossingResultHighest(newGroupID, newGroup, crossing, existingGroups0) ==
    [NewGroupID |-> newGroupID,
     BaseGroupID |-> crossing.baseGroupID,
     ProblemIDs |-> newGroup,
     CrossingGroups |-> crossing.crossingGroups,
     Representative |-> Highest(newGroup, newGroup[1]),
     SelectionReason |-> ReasonNoCrossing]

\* The CrossingResult processGroup returns, given the id it read.
CrossingResult(newGroupID, newGroup, crossing, existingGroups0) ==
    LET best == selectBestRepresentative(newGroup, crossing.crossingGroups,
                                         existingGroups0)
    IN  [NewGroupID |-> newGroupID,
         BaseGroupID |-> crossing.baseGroupID,
         ProblemIDs |-> newGroup,
         CrossingGroups |-> crossing.crossingGroups,
         Representative |-> best.Representative,
         SelectionReason |-> best.SelectionReason]

\* ---- processGroups and its goroutines
IdleWorker(pc) ==
    [pc |-> pc, job |-> 0,
     crossing |-> [crossingGroups |-> <<>>, baseGroupID |-> 0],
     newGroupID |-> 0, tmp |-> 0]

\* processGroups: "for i := range newGroups { jobs <- i }".  The channel has
\* room for every index, so the send never blocks.  Indices are 1-based here.
SendJob ==
    /\ mpc = "send"
    /\ sent < Len(newGroups)
    /\ jobs' = Append(jobs, sent + 1)
    /\ sent' = sent + 1
    /\ UNCHANGED <<existingGroups, problemIndex, newGroups, nextGroupID,
                   jobsClosed, resultsChan, resultsClosed, wg, workers, mpc,
                   results>>
    /\ UNCHANGED <<applierVars, toolVars>>

\* Faulty variant of CloseJobs: the caller goes on to collect without
\* closing jobs.
CloseJobsForgotten ==
    /\ mpc = "send"
    /\ sent = Len(newGroups)
    /\ mpc' = "collect"
    /\ UNCHANGED <<existingGroups, problemIndex, newGroups, nextGroupID, jobs,
                   jobsClosed, resultsChan, resultsClosed, wg, workers, sent,
                   results>>
    /\ UNCHANGED <<applierVars, toolVars>>

\* processGroups: close(jobs), then start the goroutine that waits for the
\* workers, and go on to collect.
CloseJobs ==
    /\ mpc = "send"
    /\ sent = Len(newGroups)
    /\ jobsClosed' = TRUE
    /\ mpc' = "collect"
    /\ UNCHANGED <<existingGroups, problemIndex, newGroups, nextGroupID, jobs,
                   resultsChan, resultsClosed, wg, workers, sent, results>>
    /\ UNCHANGED <<applierVars, toolVars>>

\* worker: "for i := range jobs" receives an index.  An empty grouping is
\* skipped (continue); otherwise processGroup starts: it finds the crossing
\* groups, visiting relatedGroupIDs in some map order.
WorkerReceive(w) ==
    /\ workers[w].pc = "receive"
    /\ jobs # <<>>
    /\ jobs' = Tail(jobs)
    /\ LET newGroup == newGroups[Head(jobs)]
       IN  IF Len(newGroup) = 0
           THEN UNCHANGED workers
           ELSE \E order \in Orders(relatedGroupIDs(newGroup, problemIndex)) :
                   workers' = [workers EXCEPT ![w] =
                       [pc |-> "read", job |-> Head(jobs),
                        crossing |-> findCrossingGroups(newGroup, order,
                                                        existingGroups),
                        newGroupID |-> 0, tmp |-> 0]]
    /\ UNCHANGED <<existingGroups, problemIndex, newGroups, nextGroupID,
                   jobsClosed, resultsChan, resultsClosed, wg, sent, mpc,
                   results>>
    /\ UNCHANGED <<applierVars, toolVars>>

\* processGroup: "newGroupID := *nextGroupID", a plain read of the shared int.
ReadNextGroupID(w) ==
    /\ workers[w].pc = "read"
    /\ workers' = [workers EXCEPT ![w].newGroupID = nextGroupID,
                                  ![w].pc = "load"]
    /\ UNCHANGED <<existingGroups, problemIndex, newGroups, nextGroupID, jobs,
                   jobsClosed, resultsChan, resultsClosed, wg, sent, mpc,
                   results>>
    /\ UNCHANGED <<applierVars, toolVars>>

\* processGroup: "*nextGroupID++", the load of the unsynchronised increment.
IncrementLoad(w) ==
    /\ workers[w].pc = "load"
    /\ workers' = [workers EXCEPT ![w].tmp = nextGroupID, ![w].pc = "store"]
    /\ UNCHANGED <<existingGroups, problemIndex, newGroups, nextGroupID, jobs,
                   jobsClosed, resultsChan, resultsClosed, wg, sent, mpc,
                   results>>
    /\ UNCHANGED <<applierVars, toolVars>>

\* Faulty variant of IncrementStore: the worker also enters the new group id
\* in the reverse index.
IncrementStoreIndexing(w) ==
    /\ workers[w].pc = "store"
    /\ nextGroupID' = workers[w].tmp + 1
    /\ problemIndex' = [p \in DOMAIN problemIndex |->
                           problemIndex[p] \cup {workers[w].newGroupID}]
    /\ workers' = [workers EXCEPT ![w].pc = "result"]
    /\ UNCHANGED <<existingGroups, newGroups, jobs, jobsClosed,
                   resultsChan, resultsClosed, wg, sent, mpc, results>>
    /\ UNCHANGED <<applierVars, toolVars>>

\* processGroup: "*nextGroupID++", the store of the unsynchronised increment.
IncrementStore(w) ==
    /\ workers[w].pc = "store"
    /\ nextGroupID' = workers[w].tmp + 1
    /\ workers' = [workers EXCEPT ![w].pc = "result"]
    /\ UNCHANGED <<existingGroups, problemIndex, newGroups, jobs, jobsClosed,
                   resultsChan, resultsClosed, wg, sent, mpc, results>>
    /\ UNCHANGED <<applierVars, toolVars>>

\* Faulty variant of SendResult: a grouping without a crossed representative
\* among its members is treated as an error and no record is sent.
SendResultUnlessFallback(w) ==
    /\ workers[w].pc = "result"
    /\ LET record == CrossingResult(workers[w].newGroupID,
                                     newGroups[workers[w].job],
                                     workers[w].crossing, existingGroups)
       IN  resultsChan' =
               IF record.SelectionReason \in
                      {ReasonRepWithVideo, ReasonRepCarried}
               THEN Append(resultsChan, record)
               ELSE resultsChan
    /\ workers' = [workers EXCEPT ![w] = IdleWorker("receive")]
    /\ UNCHANGED <<existingGroups, problemIndex, newGroups, nextGroupID, jobs,
                   jobsClosed, resultsClosed, wg, sent, mpc, results>>
    /\ UNCHANGED <<applierVars, toolVars>>

\* processGroup selects the representative and returns; worker sends the
\* record on results (room for one record per grouping, so no blocking).
SendResult(w) ==
    /\ workers[w].pc = "result"
    /\ resultsChan' = Append(resultsChan,
           CrossingResult(workers[w].newGroupID, newGroups[workers[w].job],
                          workers[w].crossing, existingGroups))
    /\ workers' = [workers EXCEPT ![w] = IdleWorker("receive")]
    /\ UNCHANGED <<existingGroups, problemIndex, newGroups, nextGroupID, jobs,
                   jobsClosed, resultsClosed, wg, sent, mpc, results>>
    /\ UNCHANGED <<applierVars, toolVars>>

\* worker: jobs is closed and drained, the range loop ends; deferred wg.Done().
WorkerExit(w) ==
    /\ workers[w].pc = "receive"
    /\ jobs = <<>>
    /\ jobsClosed
    /\ workers' = [workers EXCEPT ![w].pc = "exited"]
    /\ wg' = wg - 1
    /\ UNCHANGED <<existingGroups, problemIndex, newGroups, nextGroupID, jobs,
                   jobsClosed, resultsChan, resultsClosed, sent, mpc, results>>
    /\ UNCHANGED <<applierVars, toolVars>>

\* The anonymous goroutine: wg.Wait() returns, close(resultsChan).
CloseResults ==
    /\ mpc # "send"
    /\ wg = 0
    /\ ~resultsClosed
    /\ resultsClosed' = TRUE
    /\ UNCHANGED <<existingGroups, problemIndex, newGroups, nextGroupID, jobs,
                   jobsClosed, resultsChan, wg, workers, sent, mpc, results>>
    /\ UNCHANGED <<applierVars, toolVars>>

\* processGroups: "for result := range resultsChan" receives a record.
CollectResult ==
    /\ mpc = "collect"
    /\ resultsChan # <<>>
    /\ results' = Append(results, Head(resultsChan))
    /\ resultsChan' = Tail(resultsChan)
    /\ UNCHANGED <<existingGroups, problemIndex, newGroups, nextGroupID, jobs,
                   jobsClosed, resultsClosed, wg, workers, sent, mpc>>
    /\ UNCHANGED <<applierVars, toolVars>>

\* The outcomes of sort.Slice by NewGroupID: the sort is not stable, so
\* records with equal ids may end in any order.
SortedByNewGroupID(rs) ==
    {[k \in DOMAIN rs |-> rs[f[k]]] :
        f \in {g \in Orders(DOMAIN rs) :
                  \A a, b \in DOMAIN rs :
                      a < b => rs[g[a]].NewGroupID <= rs[g[b]].NewGroupID}}

\* processGroups: resultsChan is closed and drained; sort and return.
SortAndReturn ==
    /\ mpc = "collect"
    /\ resultsChan = <<>>
    /\ resultsClosed
    /\ results' \in SortedByNewGroupID(results)
    /\ mpc' = "returned"
    /\ UNCHANGED <<existingGroups, problemIndex, newGroups, nextGroupID, jobs,
                   jobsClosed, resultsChan, resultsClosed, wg, workers, sent>>
    /\ UNCHANGED <<applierVars, toolVars>>

(***************************************************************************)
(*                               THE APPLIER                               *)
(***************************************************************************)
\* Records per transaction (const batchSize = 1000 in the code, scaled down).
batchSize == 2

\* The ids of the exercise_groups rows present before the applier runs.
InitialGroupIDs == {1, 2}

\* ---- rows and queries.  An exercise row is keyed by its mathflatProblemId;
\* live means the row exists with deleted_at IS NULL.
Live(st, problemID) ==
    problemID \in DOMAIN st.exercises /\ st.exercises[problemID].live

\* Faulty variant of getCategoryIDFromProblem: the query without "deleted_at IS NULL".
getCategoryIDOfAnyRow(st, problemID) ==
    IF problemID \in DOMAIN st.exercises
    THEN st.exercises[problemID].category_id
    ELSE 0

\* getCategoryIDFromProblem: category_id of the live exercise, 0 on ErrNoRows.
getCategoryIDFromProblem(st, problemID) ==
    IF Live(st, problemID) THEN st.exercises[problemID].category_id ELSE 0

\* Faulty variant of firstCategoryID: the loop without its break, which ends with the
\* category of the last member it looked up.
lastCategoryID(st, problemIDs) ==
    IF problemIDs = <<>> THEN 0
    ELSE getCategoryIDFromProblem(st, problemIDs[Len(problemIDs)])

\* The loop of processResult over ProblemIDs that stops at the first
\* categoryID # 0; 0 when the loop runs out.
RECURSIVE firstCategoryID(_, _)
firstCategoryID(st, problemIDs) ==
    IF problemIDs = <<>> THEN 0
    ELSE LET categoryID == getCategoryIDFromProblem(st, Head(problemIDs))
         IN  IF categoryID # 0 THEN categoryID
             ELSE firstCategoryID(st, Tail(problemIDs))

\* Faulty variant of createExerciseGroup: the INSERT adds no row.
createNoGroup(st, groupID, categoryID) == st

\* createExerciseGroup: INSERT ... RETURNING id, the id taken from the
\* sequence.
createExerciseGroup(st, groupID, categoryID) ==
    [st EXCEPT !.groups =
        [g \in DOMAIN st.groups \cup {groupID} |->
            IF g = groupID
            THEN [category_id |-> categoryID, deleted |-> FALSE]
            ELSE st.groups[g]]]

\* Faulty variant of markGroupAsDeleted: the UPDATE touches updated_at only.
markGroupAsUpdated(st, groupID) == st

\* Faulty variant of markGroupAsDeleted: the UPDATE without its WHERE clause.
markAllGroupsAsDeleted(st, groupID) ==
    [st EXCEPT !.groups =
        [g \in DOMAIN st.groups |-> [st.groups[g] EXCEPT !.deleted = TRUE]]]

\* Faulty variant of markGroupAsDeleted: besides soft-deleting the group,
\* the statement takes the representative flag off the group's exercises.
markGroupAndMembersDeleted(st, groupID) ==
    IF groupID \in DOMAIN st.groups
    THEN [st EXCEPT !.groups[groupID].deleted = TRUE,
                    !.exercises =
                        [p \in DOMAIN st.exercises |->
                            IF st.exercises[p].exercise_group_id = groupID
                            THEN [st.exercises[p] EXCEPT
                                      !.is_representative = FALSE]
                            ELSE st.exercises[p]]]
    ELSE st

\* markGroupAsDeleted: UPDATE exercise_groups SET deleted_at = NOW()
\* WHERE id = groupID.
markGroupAsDeleted(st, groupID) ==
    IF groupID \in DOMAIN st.groups
    THEN [st EXCEPT !.groups[groupID].deleted = TRUE]
    ELSE st

\* The loop of processResult over CrossingGroups.
RECURSIVE markCrossingGroups(_, _)
markCrossingGroups(st, crossingGroups) ==
    IF crossingGroups = <<>> THEN st
    ELSE markCrossingGroups(markGroupAsDeleted(st, Head(crossingGroups).ID),
                            Tail(crossingGroups))

\* Faulty variant of updateExercisesGroup: only the first problem id is updated.
updateFirstExerciseGroup(st, problemIDs, newGroupID) ==
    IF problemIDs # <<>> /\ Live(st, Head(problemIDs))
    THEN [st EXCEPT !.exercises[Head(problemIDs)].exercise_group_id = newGroupID]
    ELSE st

\* Faulty variant of updateExercisesGroup: the UPDATE restricted to problems
\* still in one of the groups present before the run, so that a problem an
\* earlier record has moved stays where that record put it.
RECURSIVE updateUnmovedExercises(_, _, _)
updateUnmovedExercises(st, problemIDs, newGroupID) ==
    IF problemIDs = <<>> THEN st
    ELSE LET problemID == Head(problemIDs)
             next == IF /\ Live(st, problemID)
                        /\ st.exercises[problemID].exercise_group_id \in
                               InitialGroupIDs
                     THEN [st EXCEPT !.exercises[problemID].exercise_group_id =
                                         newGroupID]
                     ELSE st
         IN  updateUnmovedExercises(next, Tail(problemIDs), newGroupID)

\* updateExercisesGroup: one UPDATE per problem id; it changes the live row
\* of that problem and nothing when there is none.
RECURSIVE updateExercisesGroup(_, _, _)
updateExercisesGroup(st, problemIDs, newGroupID) ==
    IF problemIDs = <<>> THEN st
    ELSE LET problemID == Head(problemIDs)
             next == IF Live(st, problemID)
                     THEN [st EXCEPT !.exercises[problemID].exercise_group_id =
                                         newGroupID]
                     ELSE st
         IN  updateExercisesGroup(next, Tail(problemIDs), newGroupID)

\* Faulty variant of clearRepresentativeFlags: the clearing statement is missing.
clearNoFlags(st, groupID) == st

\* setRepresentativeExercise, first statement: clear the flag of every live
\* exercise of the group.
clearRepresentativeFlags(st, groupID) ==
    [st EXCEPT !.exercises =
        [p \in DOMAIN st.exercises |->
            IF st.exercises[p].live /\ st.exercises[p].exercise_group_id = groupID
            THEN [st.exercises[p] EXCEPT !.is_representative = FALSE]
            ELSE st.exercises[p]]]

\* Faulty variant of setRepresentativeFlag: the UPDATE without its
\* mathflatProblemId condition, which flags every live exercise of the group.
setEveryRepresentativeFlag(st, problemID, groupID) ==
    [st EXCEPT !.exercises =
        [p \in DOMAIN st.exercises |->
            IF st.exercises[p].live /\ st.exercises[p].exercise_group_id = groupID
            THEN [st.exercises[p] EXCEPT !.is_representative = TRUE]
            ELSE st.exercises[p]]]

\* setRepresentativeExercise, second statement: set the flag on the live
\* exercise of the problem if it is in the group.
setRepresentativeFlag(st, problemID, groupID) ==
    IF Live(st, problemID) /\ st.exercises[problemID].exercise_group_id = groupID
    THEN [st EXCEPT !.exercises[problemID].is_representative = TRUE]
    ELSE st

setRepresentativeExercise(st, problemID, groupID) ==
    setRepresentativeFlag(clearRepresentativeFlags(st, groupID), problemID,
                          groupID)

\* The rows of the representative query of one crossing group, in the order
\* the store returns them (rowOrder: the order of the exercises rows; the
\* query has no ORDER BY).
representativeRows(st, groupID, rowOrder) ==
    LET rows == SelectSeq(rowOrder, LAMBDA p :
                    /\ st.exercises[p].live
                    /\ st.exercises[p].exercise_group_id = groupID
                    /\ st.exercises[p].is_representative)
    IN  [k \in DOMAIN rows |->
            [ProblemID |-> rows[k],
             HasSolutionVideo |-> st.exercises[rows[k]].has_video]]

\* existingRepresentatives of the applier's selectBestRepresentative.
RECURSIVE queryRepresentatives(_, _, _)
queryRepresentatives(st, crossingGroups, rowOrder) ==
    IF crossingGroups = <<>> THEN <<>>
    ELSE representativeRows(st, Head(crossingGroups).ID, rowOrder)
         \o queryRepresentatives(st, Tail(crossingGroups), rowOrder)

\* The third loop: the first problem id whose live exercise has a video,
\* 0 when there is none.
RECURSIVE firstWithVideo(_, _)
firstWithVideo(st, problemIDs) ==
    IF problemIDs = <<>> THEN 0
    ELSE IF Live(st, Head(problemIDs)) /\ st.exercises[Head(problemIDs)].has_video
         THEN Head(problemIDs)
         ELSE firstWithVideo(st, Tail(problemIDs))

\* selectBestRepresentative of csv_uploader (the applier).
applierSelectBestRepresentative(st, problemIDs, crossingGroups, rowOrder) ==
    IF Len(problemIDs) = 0 THEN 0
    ELSE IF Len(crossingGroups) = 0 THEN Highest(problemIDs, problemIDs[1])
    ELSE
      LET existingRepresentatives ==
              queryRepresentatives(st, crossingGroups, rowOrder)
          included == SelectSeq(existingRepresentatives, LAMBDA rep :
                          rep.ProblemID \in Range(problemIDs))
          includedWithVideo ==
              SelectSeq(included, LAMBDA rep : rep.HasSolutionVideo)
          video == firstWithVideo(st, problemIDs)
      IN  IF Len(includedWithVideo) > 0 THEN includedWithVideo[1].ProblemID
          ELSE IF Len(included) > 0 THEN included[1].ProblemID
          ELSE IF video # 0 THEN video
          ELSE Highest(problemIDs, problemIDs[1])

\* processResult, statement by statement: the store after each step, the id
\* of the inserted group and the representative selected.  kind is "empty"
\* (no ProblemIDs: return nil at once), "skipped" (no member has a live
\* exercise: warning, return nil) or "applied".
processResult(st, groupID, result, rowOrder) ==
    LET categoryID == firstCategoryID(st, result.ProblemIDs)
        created == createExerciseGroup(st, groupID, categoryID)
        marked == markCrossingGroups(created, result.CrossingGroups)
        updated == updateExercisesGroup(marked, result.ProblemIDs, groupID)
        representative ==
            applierSelectBestRepresentative(updated, result.ProblemIDs,
                                            result.CrossingGroups, rowOrder)
        final == IF representative # 0
                 THEN setRepresentativeExercise(updated, representative, groupID)
                 ELSE updated
        untouched(kind) ==
            [kind |-> kind, result |-> result, pre |-> st, categoryID |-> 0,
             newGroupID |-> 0, marked |-> st, updated |-> st,
             representative |-> 0, store |-> st]
    IN  IF Len(result.ProblemIDs) = 0 THEN untouched("empty")
        ELSE IF categoryID = 0 THEN untouched("skipped")
        ELSE [kind |-> "applied", result |-> result, pre |-> st,
              categoryID |-> categoryID, newGroupID |-> groupID,
              marked |-> marked, updated |-> updated,
              representative |-> representative, store |-> final]

\* The statements of processResult that can return an error (the video
\* queries of the third selection loop swallow theirs).
FailStages == {"category", "create", "mark", "update", "select", "clear", "set"}

\* processResult returning an error at the given statement, in iteration
\* "at" of the loop the statement is in (1 for a statement outside a loop):
\* whether the code can fail there for this record, and the store the
\* transaction holds when it does.  The loops over CrossingGroups and
\* ProblemIDs return from inside, so the iterations before "at" have
\* written.
processResultError(st, groupID, result, rowOrder, stage, at) ==
    LET ok == processResult(st, groupID, result, rowOrder)
        applied == ok.kind = "applied"
        crossed == Len(result.CrossingGroups) > 0
        cleared == clearRepresentativeFlags(ok.updated, groupID)
        created == createExerciseGroup(st, groupID, ok.categoryID)
        before(list) ==
            SubSeq(list, 1, IF at - 1 < Len(list) THEN at - 1 ELSE Len(list))
        markedSoFar == markCrossingGroups(created, before(result.CrossingGroups))
        updatedSoFar ==
            updateExercisesGroup(ok.marked, before(result.ProblemIDs), groupID)
    IN  [possible |->
             CASE stage = "category" ->
                      /\ at \in DOMAIN result.ProblemIDs
                      /\ \A j \in 1..(at - 1) :
                            getCategoryIDFromProblem(st, result.ProblemIDs[j]) = 0
               [] stage = "create" -> applied /\ at = 1
               [] stage = "mark" -> applied /\ at \in DOMAIN result.CrossingGroups
               [] stage = "update" -> applied /\ at \in DOMAIN result.ProblemIDs
               [] stage = "select" ->
                      applied /\ at \in DOMAIN result.CrossingGroups
               [] stage = "clear" -> applied /\ ok.representative # 0 /\ at = 1
               [] stage = "set" -> applied /\ ok.representative # 0 /\ at = 1,
         inserted |-> applied /\ stage \notin {"category", "create"},
         store |->
             CASE stage \in {"category", "create"} -> st
               [] stage = "mark" -> markedSoFar
               [] stage = "update" -> updatedSoFar
               [] stage \in {"select", "clear"} -> ok.updated
               [] stage = "set" -> cleared]

\* The deferred tx.Rollback() of processBatch: the committed store is what it
\* was, the transaction's writes are dropped.
RollbackKeepsWrites(committed, working) == working
Rollback(committed, working) == committed

\* tx.Commit(): the transaction's writes become the committed store.
Commit(committed, working) == working

\* ---- uploadResults / processBatch
\* Faulty variant of ChunkEnd: the slice ends one record early.
ChunkEndShort ==
    IF i + batchSize > Len(artifact) THEN Len(artifact) ELSE i + batchSize - 1

\* "end := i + batchSize; if end > len(results) { end = len(results) }".
ChunkEnd == IF i + batchSize > Len(artifact) THEN Len(artifact) ELSE i + batchSize

NoCall(st) ==
    [kind |-> "none", result |-> [ProblemIDs |-> <<>>, CrossingGroups |-> <<>>],
     pre |-> st, categoryID |-> 0, newGroupID |-> 0, marked |-> st,
     updated |-> st, representative |-> 0, store |-> st]

\* processBatch: database.BeginTx succeeds.
BeginTx ==
    /\ apc = "loop"
    /\ i < Len(artifact)
    /\ tx' = db
    /\ chunkStart' = db
    /\ done' = 0
    /\ apc' = "batch"
    /\ opened' = Append(opened, <<i + 1, ChunkEnd>>)
    /\ UNCHANGED <<db, nextval, artifact, i, last, runs>>
    /\ UNCHANGED <<resolverVars, toolVars>>

\* processBatch: database.BeginTx returns an error; uploadResults returns it.
BeginTxFails ==
    /\ apc = "loop"
    /\ i < Len(artifact)
    /\ apc' = "error"
    /\ UNCHANGED <<db, tx, nextval, artifact, i, done, chunkStart, last, runs,
                   opened>>
    /\ UNCHANGED <<resolverVars, toolVars>>

\* processBatch: processResult returns nil for the next record of the batch.
ProcessResult ==
    /\ apc = "batch"
    /\ i + done < ChunkEnd
    /\ \E call \in {processResult(tx, nextval, artifact[i + done + 1], rowOrder) :
                       rowOrder \in Orders(Problems)} :
          /\ tx' = call.store
          /\ nextval' = IF call.kind = "applied" THEN nextval + 1 ELSE nextval
          /\ last' = call
    /\ done' = done + 1
    /\ UNCHANGED <<db, artifact, i, apc, chunkStart, runs, opened>>
    /\ UNCHANGED <<resolverVars, toolVars>>

\* processBatch: processResult returns an error for the next record.
ProcessResultFails ==
    /\ apc = "batch"
    /\ i + done < ChunkEnd
    /\ \E call \in {processResultError(tx, nextval, artifact[i + done + 1],
                                       rowOrder, stage, at) :
                       rowOrder \in Orders(Problems), stage \in FailStages,
                       at \in {1} \cup DOMAIN artifact[i + done + 1].ProblemIDs
                              \cup DOMAIN artifact[i + done + 1].CrossingGroups} :
          /\ call.possible
          /\ tx' = call.store
          /\ nextval' = IF call.inserted THEN nextval + 1 ELSE nextval
          /\ last' = [NoCall(tx) EXCEPT !.kind = "failed",
                                        !.result = artifact[i + done + 1],
                                        !.store = call.store]
    /\ apc' = "failed"
    /\ UNCHANGED <<db, artifact, i, done, chunkStart, runs, opened>>
    /\ UNCHANGED <<resolverVars, toolVars>>

\* processBatch: every record returned nil and tx.Commit() succeeds;
\* uploadResults moves to the next chunk.
CommitBatch ==
    /\ apc = "batch"
    /\ i + done = ChunkEnd
    /\ db' = Commit(db, tx)
    /\ i' = i + batchSize
    /\ apc' = "loop"
    /\ UNCHANGED <<tx, nextval, artifact, done, chunkStart, last, runs, opened>>
    /\ UNCHANGED <<resolverVars, toolVars>>

\* processBatch: tx.Commit() returns an error.
CommitFails ==
    /\ apc = "batch"
    /\ i + done = ChunkEnd
    /\ apc' = "failed"
    /\ UNCHANGED <<db, tx, nextval, artifact, i, done, chunkStart, last, runs,
                   opened>>
    /\ UNCHANGED <<resolverVars, toolVars>>

\* Faulty variant of RollbackBatch: the error of the chunk is logged and the
\* loop goes on with the next chunk.
RollbackAndContinue ==
    /\ apc = "failed"
    /\ db' = Rollback(db, tx)
    /\ tx' = db'
    /\ i' = i + batchSize
    /\ apc' = "loop"
    /\ UNCHANGED <<nextval, artifact, done, chunkStart, last, runs, opened>>
    /\ UNCHANGED <<resolverVars, toolVars>>

\* processBatch returns the error: the deferred Rollback runs, and
\* uploadResults returns the error without starting another chunk.
RollbackBatch ==
    /\ apc = "failed"
    /\ db' = Rollback(db, tx)
    /\ tx' = db'
    /\ apc' = "error"
    /\ UNCHANGED <<nextval, artifact, i, done, chunkStart, last, runs, opened>>
    /\ UNCHANGED <<resolverVars, toolVars>>

\* uploadResults: the loop has run out of records; return nil.
UploadReturn ==
    /\ apc = "loop"
    /\ i >= Len(artifact)
    /\ apc' = "done"
    /\ runs' = Append(runs, db)
    /\ UNCHANGED <<db, tx, nextval, artifact, i, done, chunkStart, last,
                   opened>>
    /\ UNCHANGED <<resolverVars, toolVars>>

\* main run once more with the same results file, against the store the
\* completed run left: uploadResults starts again at the first record.
UploadAgain ==
    /\ apc = "done"
    /\ Len(runs) = 1
    /\ i' = 0
    /\ done' = 0
    /\ apc' = "loop"
    /\ UNCHANGED <<db, tx, nextval, artifact, chunkStart, last, runs, opened>>
    /\ UNCHANGED <<resolverVars, toolVars>>

ApplierNext ==
    \/ BeginTx
    \/ BeginTxFails
    \/ ProcessResult
    \/ ProcessResultFails
    \/ CommitBatch
    \/ CommitFails
    \/ RollbackBatch
    \/ UploadReturn

(***************************************************************************)
(*                          THE EXERCISE UPLOADER                          *)
(***************************************************************************)
\* The value of a JSON field that is absent or fails its type assertion, and
\* of a NULL column.
Missing == 0 - 1
Null == 0

ExerciseTypes == {"SINGLE_CHOICE", "SHORT_ANSWER"}

\* ---- statements of processExercise
\* "SELECT id, representative_id FROM exercise_groups WHERE mathflatConceptId
\* = $1 AND mathflatGroupCode = $2 AND deleted_at IS NULL": the ids of the
\* rows that match.
matchingGroups(st, conceptID, groupCode) ==
    {g \in DOMAIN st.groups :
        /\ st.groups[g].live
        /\ st.groups[g].conceptID = conceptID
        /\ st.groups[g].groupCode = groupCode}

\* "INSERT INTO exercise_groups (metadata, category_id, ...) RETURNING id,
\* representative_id": the new row has no representative.
insertExerciseGroup(st, id, conceptID, groupCode, categoryID) ==
    [st EXCEPT !.groups =
        [g \in DOMAIN st.groups \cup {id} |->
            IF g = id
            THEN [conceptID |-> conceptID, groupCode |-> groupCode,
                  category_id |-> categoryID, representative_id |-> Null,
                  live |-> TRUE]
            ELSE st.groups[g]]]

\* "SELECT id, references FROM exercises WHERE mathflatProblemId = $1 AND
\* deleted_at IS NULL": the ids of the rows that match.
existingExercises(st, problemID) ==
    {e \in DOMAIN st.exercises :
        st.exercises[e].live /\ st.exercises[e].problemID = problemID}

\* refMap: the non-empty strings of the stored and of the new references.
mergeReferences(existingRefs, references) ==
    {ref \in Range(existingRefs) \cup Range(references) : ref # ""}

\* "UPDATE exercises SET references = $1 WHERE id = $2".
updateReferences(st, exerciseID, mergedRefs) ==
    [st EXCEPT !.exercises[exerciseID].references = mergedRefs]

\* "INSERT INTO exercises (...) RETURNING id".
insertExercise(st, id, v, groupID, categoryID) ==
    [st EXCEPT !.exercises =
        [e \in DOMAIN st.exercises \cup {id} |->
            IF e = id
            THEN [problemID |-> v.id, exercise_group_id |-> groupID,
                  category_id |-> categoryID, references |-> v.references,
                  live |-> TRUE]
            ELSE st.exercises[e]]]

\* Faulty variant of setRepresentativeIfNone: the UPDATE without the test
\* of RepresentativeID.
setRepresentativeAlways(st, groupID, representativeID, exerciseID) ==
    [st EXCEPT !.groups[groupID].representative_id = exerciseID]

\* "if exerciseGroup.RepresentativeID == nil { UPDATE exercise_groups SET
\* representative_id = $1 WHERE id = $2 }".
setRepresentativeIfNone(st, groupID, representativeID, exerciseID) ==
    IF representativeID = Null
    THEN [st EXCEPT !.groups[groupID].representative_id = exerciseID]
    ELSE st

\* The statements of processExercise the store can fail ("none": it fails
\* none of them).
ExerciseFailStages ==
    {"categories", "group", "insert group", "exercise", "references",
     "insert exercise", "representative"}

\* What a call of processExercise returns and leaves: err is TRUE when it
\* returns an error, path names the return statement, store is the store
\* the transaction holds then, and group / exercise tell whether an id of
\* the exercise_groups / exercises sequence was used.
Outcome(err, path, st, group, exercise) ==
    [err |-> err, path |-> path, store |-> st, group |-> group,
     exercise |-> exercise]

\* processExercise on problem v, with gid and eid the next ids of the two
\* sequences, fail the statement the store fails (if the call gets to it)
\* and order the order in which the range over refMap visits the strings.
processExercise(st, v, gid, eid, fail, order) ==
    LET hasGroupCode == v.groupCode # Missing
        categoryID == st.categories[v.conceptId]
        matches == matchingGroups(st, v.conceptId, v.groupCode)
        found == hasGroupCode /\ matches # {}
        foundID == CHOOSE g \in matches : \A h \in matches : g <= h
        groupID == IF found THEN foundID ELSE gid
        representativeID ==
            IF found THEN st.groups[foundID].representative_id ELSE Null
        grouped == IF found THEN st
                   ELSE insertExerciseGroup(st, gid, v.conceptId, v.groupCode,
                                            categoryID)
        existing == existingExercises(grouped, v.id)
        existingID == CHOOSE e \in existing : \A f \in existing : e <= f
        existingRefs == grouped.exercises[existingID].references
        mergedRefs ==
            SelectSeq(order, LAMBDA ref :
                ref \in mergeReferences(existingRefs, v.references))
        inserted == insertExercise(grouped, eid, v, groupID, categoryID)
        final == setRepresentativeIfNone(inserted, groupID, representativeID,
                                         eid)
    IN  IF v.type \notin ExerciseTypes
        THEN Outcome(FALSE, "skipped", st, FALSE, FALSE)
        ELSE IF v.conceptId = Missing
        THEN Outcome(TRUE, "invalid conceptId", st, FALSE, FALSE)
        ELSE IF fail = "categories"
        THEN Outcome(TRUE, "failed to query categories", st, FALSE, FALSE)
        ELSE IF v.conceptId \notin DOMAIN st.categories
        THEN Outcome(TRUE, "no category found", st, FALSE, FALSE)
        ELSE IF hasGroupCode /\ fail = "group"
        THEN Outcome(TRUE, "group query", st, FALSE, FALSE)
        ELSE IF ~found /\ fail = "insert group"
        THEN Outcome(TRUE, "group insert", st, FALSE, FALSE)
        ELSE IF v.id = Missing
        THEN Outcome(TRUE, "invalid problem id", grouped, ~found, FALSE)
        ELSE IF fail = "exercise"
        THEN Outcome(TRUE, "failed to check existing exercise", grouped,
                     ~found, FALSE)
        ELSE IF existing # {}
        THEN IF Len(mergedRefs) > Len(existingRefs)
             THEN IF fail = "references"
                  THEN Outcome(TRUE, "failed to update exercise references",
                               grouped, ~found, FALSE)
                  ELSE Outcome(FALSE, "updated references",
                               updateReferences(grouped, existingID,
                                                mergedRefs),
                               ~found, FALSE)
             ELSE Outcome(FALSE, "no new references", grouped, ~found, FALSE)
        ELSE IF v.type = "SINGLE_CHOICE" /\ ~v.answerIsNumber
        THEN Outcome(TRUE, "invalid answer", grouped, ~found, FALSE)
        ELSE IF fail = "insert exercise"
        THEN Outcome(TRUE, "exercise insert", grouped, ~found, FALSE)
        ELSE IF representativeID = Null /\ fail = "representative"
        THEN Outcome(TRUE, "representative update", inserted, ~found, TRUE)
        ELSE Outcome(FALSE, "inserted", final, ~found, TRUE)

\* ---- processExercises
\* The call processExercises has not made yet.
NoExerciseCall(st) ==
    [err |-> FALSE, path |-> "none", store |-> st, group |-> FALSE,
     exercise |-> FALSE, pre |-> st, v |-> Missing]

\* What the loop has left after a problem: the committed store, whether
\* processExercise returned an error for it and whether the call had
\* written to the transaction.
Settled(st, failed, wrote) ==
    [store |-> st, failed |-> failed, wrote |-> wrote]

ReferenceStrings == {"", "a", "b"}

\* database.BeginTx succeeds.
ExerciseBeginTx ==
    /\ epc = "loop"
    /\ epos < Len(jsonProblems)
    /\ etx' = edb
    /\ epc' = "tx"
    /\ UNCHANGED <<edb, groupSeq, exerciseSeq, jsonProblems, epos, ecall,
                   settled>>
    /\ UNCHANGED <<resolverVars, applierVars, sequenceVars, sessionVars>>

\* database.BeginTx returns an error: warning, continue with the next
\* problem.
ExerciseBeginTxFails ==
    /\ epc = "loop"
    /\ epos < Len(jsonProblems)
    /\ epos' = epos + 1
    /\ settled' = Append(settled, Settled(edb, FALSE, FALSE))
    /\ UNCHANGED <<edb, etx, groupSeq, exerciseSeq, jsonProblems, epc, ecall>>
    /\ UNCHANGED <<resolverVars, applierVars, sequenceVars, sessionVars>>

\* The call of processExercise for the next problem.
ProcessExercise ==
    /\ epc = "tx"
    /\ \E call \in {processExercise(etx, jsonProblems[epos + 1], groupSeq,
                                    exerciseSeq, fail, order) :
                       fail \in ExerciseFailStages \cup {"none"},
                       order \in Orders(ReferenceStrings)} :
          /\ etx' = call.store
          /\ groupSeq' = IF call.group THEN groupSeq + 1 ELSE groupSeq
          /\ exerciseSeq' = IF call.exercise THEN exerciseSeq + 1
                            ELSE exerciseSeq
          /\ ecall' = [err |-> call.err, path |-> call.path,
                       store |-> call.store, group |-> call.group,
                       exercise |-> call.exercise, pre |-> etx,
                       v |-> epos + 1]
          /\ epc' = IF call.err THEN "rollback" ELSE "commit"
    /\ UNCHANGED <<edb, jsonProblems, epos, settled>>
    /\ UNCHANGED <<resolverVars, applierVars, sequenceVars, sessionVars>>

\* Faulty variant of ExerciseRollback: the error is returned to the caller
\* and the loop ends.
ExerciseRollbackAndReturn ==
    /\ epc = "rollback"
    /\ etx' = edb
    /\ epc' = "error"
    /\ settled' = Append(settled, Settled(edb, TRUE, ecall.store # ecall.pre))
    /\ UNCHANGED <<edb, groupSeq, exerciseSeq, jsonProblems, epos, ecall>>
    /\ UNCHANGED <<resolverVars, applierVars, sequenceVars, sessionVars>>

\* processExercise returned an error: tx.Rollback(), warning, next problem.
ExerciseRollback ==
    /\ epc = "rollback"
    /\ etx' = edb
    /\ epos' = epos + 1
    /\ epc' = "loop"
    /\ settled' = Append(settled, Settled(edb, TRUE, ecall.store # ecall.pre))
    /\ UNCHANGED <<edb, groupSeq, exerciseSeq, jsonProblems, ecall>>
    /\ UNCHANGED <<resolverVars, applierVars, sequenceVars, sessionVars>>

\* processExercise returned nil: tx.Commit() succeeds, next problem.
ExerciseCommit ==
    /\ epc = "commit"
    /\ edb' = etx
    /\ epos' = epos + 1
    /\ epc' = "loop"
    /\ settled' = Append(settled, Settled(etx, FALSE, ecall.store # ecall.pre))
    /\ UNCHANGED <<etx, groupSeq, exerciseSeq, jsonProblems, ecall>>
    /\ UNCHANGED <<resolverVars, applierVars, sequenceVars, sessionVars>>

\* processExercise returned nil and tx.Commit() returns an error, which
\* processExercises drops: the writes are lost, next problem.
ExerciseCommitFails ==
    /\ epc = "commit"
    /\ etx' = edb
    /\ epos' = epos + 1
    /\ epc' = "loop"
    /\ settled' = Append(settled, Settled(edb, FALSE, ecall.store # ecall.pre))
    /\ UNCHANGED <<edb, groupSeq, exerciseSeq, jsonProblems, ecall>>
    /\ UNCHANGED <<resolverVars, applierVars, sequenceVars, sessionVars>>

\* The loop has run out of problems: return nil.
ExercisesReturn ==
    /\ epc = "loop"
    /\ epos = Len(jsonProblems)
    /\ epc' = "done"
    /\ UNCHANGED <<edb, etx, groupSeq, exerciseSeq, jsonProblems, epos, ecall,
                   settled>>
    /\ UNCHANGED <<resolverVars, applierVars, sequenceVars, sessionVars>>

UploaderNext ==
    \/ ExerciseBeginTx
    \/ ExerciseBeginTxFails
    \/ ProcessExercise
    \/ ExerciseRollback
    \/ ExerciseCommit
    \/ ExerciseCommitFails
    \/ ExercisesReturn

(***************************************************************************)
(*                    THE SEQUENCE FILE OF A CATEGORY                      *)
(***************************************************************************)
\* Calls of getOrAssignSequence made in one run of the model.
MaxCalls == 4

\* The names passed to getOrAssignSequence: the empty string (an empty
\* revisionName reaches it, main.go:422-426), plain names, and a name with
\* a leading blank.
Names == {"", "a", " a", "b"}

\* The strings that a line of the file can be: a name, or the blank that
\* is left of " a" when a write is cut inside it.
Texts == Names \cup {" "}

\* The bytes of a string, and the string of a sequence of bytes.
Chars(s) ==
    CASE s = "" -> <<>>
      [] s = " " -> <<" ">>
      [] s = "a" -> <<"a">>
      [] s = " a" -> <<" ", "a">>
      [] s = "b" -> <<"b">>
Text(chars) == CHOOSE s \in Texts : Chars(s) = chars

\* strings.TrimSpace on the names and lines of the model.
TrimSpace(s) == IF s = " a" THEN "a" ELSE IF s = " " THEN "" ELSE s

\* The sequence file: no file, or its lines.  A last line counts whether
\* or not a newline ends it, as for the scanner.
AbsentFile == [exists |-> FALSE, lines |-> <<>>]
FileOf(lines) == [exists |-> TRUE, lines |-> lines]

\* The bytes that saveSequenceMap hands to the writer: every line followed
\* by a newline.
RECURSIVE bytesOf(_)
bytesOf(lines) ==
    IF lines = <<>> THEN <<>>
    ELSE Chars(Head(lines)) \o <<"\n">> \o bytesOf(Tail(lines))

\* The lines bufio.Scanner finds in the bytes of a file: the bytes up to
\* each newline, and the bytes after the last newline when there are any.
RECURSIVE splitLines(_, _)
splitLines(bytes, line) ==
    IF bytes = <<>> THEN (IF line = <<>> THEN <<>> ELSE <<Text(line)>>)
    ELSE IF Head(bytes) = "\n"
    THEN <<Text(line)>> \o splitLines(Tail(bytes), <<>>)
    ELSE splitLines(Tail(bytes), Append(line, Head(bytes)))

\* The scanner loop of loadSequenceMap: every non-empty trimmed line gets
\* the next number; a line seen again overwrites its entry.
RECURSIVE scanLines(_, _, _)
scanLines(lines, sequenceMap, sequence) ==
    IF lines = <<>> THEN sequenceMap
    ELSE LET line == TrimSpace(Head(lines))
         IN  IF line # ""
             THEN scanLines(Tail(lines),
                            [n \in DOMAIN sequenceMap \cup {line} |->
                                IF n = line THEN sequence ELSE sequenceMap[n]],
                            sequence + 1)
             ELSE scanLines(Tail(lines), sequenceMap, sequence)

\* What the file system can fail: nothing, os.Open with an error other
\* than "does not exist", the scanner, os.Create, or a write or the Flush.
SequenceFaults == {"none", "open", "scan", "create", "write"}

\* loadSequenceMap: an error when os.Open fails with anything but "does
\* not exist" (with or without a file: a path component may be no
\* directory); the empty map when there is no file; an error when the file
\* cannot be read to its end.
loadSequenceMap(file, fault) ==
    IF fault = "open" THEN [err |-> TRUE, sequenceMap |-> <<>>]
    ELSE IF ~file.exists THEN [err |-> FALSE, sequenceMap |-> <<>>]
    ELSE IF fault = "scan" THEN [err |-> TRUE, sequenceMap |-> <<>>]
    ELSE [err |-> FALSE, sequenceMap |-> scanLines(file.lines, <<>>, 0)]

\* "items[seq] = name" over the map in iteration order: the item at index k
\* is the last name visited that has number k, "" when none has.
itemAt(sequenceMap, order, k) ==
    LET at == SelectSeq(order, LAMBDA n :
                  n \in DOMAIN sequenceMap /\ sequenceMap[n] = k)
    IN  IF at = <<>> THEN "" ELSE at[Len(at)]

\* saveSequenceMap: the items in index order, the empty ones left out, one
\* per line.  It panics (index out of range) before the file is created
\* when a number is not below len(sequenceMap); when os.Create fails the
\* file is as it was; when a write or the Flush fails the file holds the
\* first "written" bytes only, fewer than all.  reached tells whether the
\* code gets to the statement that fails.
saveSequenceMap(file, sequenceMap, order, fault, written) ==
    LET size == Cardinality(DOMAIN sequenceMap)
        items == [k \in 1..size |-> itemAt(sequenceMap, order, k - 1)]
        lines == SelectSeq(items, LAMBDA item : item # "")
    IN  IF \E n \in DOMAIN sequenceMap : sequenceMap[n] >= size
        THEN [panic |-> TRUE, err |-> FALSE, file |-> file,
              reached |-> fault = "none"]
        ELSE IF fault = "create"
        THEN [panic |-> FALSE, err |-> TRUE, file |-> file, reached |-> TRUE]
        ELSE IF fault = "write"
        THEN [panic |-> FALSE, err |-> TRUE,
              file |-> FileOf(splitLines(
                           SubSeq(bytesOf(lines), 1,
                                  IF written < Len(bytesOf(lines))
                                  THEN written ELSE Len(bytesOf(lines))),
                           <<>>)),
              reached |-> written < Len(bytesOf(lines))]
        ELSE [panic |-> FALSE, err |-> FALSE, file |-> FileOf(lines),
              reached |-> fault = "none"]

\* getOrAssignSequence: the number of the name in the loaded map, or
\* len(sequenceMap) as its new number, saved to the file; (0, err) when
\* loading or saving fails.  possible tells whether the fault can happen
\* in this call.
getOrAssignSequence(file, name, order, fault, written) ==
    LET loaded == loadSequenceMap(file, fault)
        sequenceMap == loaded.sequenceMap
        newSeq == Cardinality(DOMAIN sequenceMap)
        saved == saveSequenceMap(
                     file,
                     [n \in DOMAIN sequenceMap \cup {name} |->
                         IF n = name THEN newSeq ELSE sequenceMap[n]],
                     order, fault, written)
    IN  IF loaded.err
        THEN [seq |-> 0, err |-> TRUE, file |-> file, panic |-> FALSE,
              possible |-> written = 0]
        ELSE IF name \in DOMAIN sequenceMap
        THEN [seq |-> sequenceMap[name], err |-> FALSE, file |-> file,
              panic |-> FALSE, possible |-> fault = "none" /\ written = 0]
        ELSE [seq |-> IF saved.err THEN 0 ELSE newSeq, err |-> saved.err,
              file |-> saved.file, panic |-> saved.panic,
              possible |-> saved.reached /\ (fault = "write" \/ written = 0)]

\* One call of getOrAssignSequence for the category: the name, the order
\* in which the map with the name is iterated, the fault, and the bytes
\* written before a write fails.
GetOrAssignSequence ==
    /\ qpc = "ready"
    /\ Len(calls) < MaxCalls
    /\ \E name \in Names, fault \in SequenceFaults :
       \E order \in Orders(DOMAIN scanLines(sequenceFile.lines, <<>>, 0)
                               \cup {name}) :
       \E written \in IF fault = "write" THEN 0..Len(bytesOf(order)) ELSE {0} :
          LET call == getOrAssignSequence(sequenceFile, name, order, fault,
                                          written)
          IN  /\ call.possible
              /\ sequenceFile' = call.file
              /\ calls' = Append(calls, [name |-> name, seq |-> call.seq,
                                         err |-> call.err,
                                         before |-> sequenceFile,
                                         after |-> call.file])
              /\ qpc' = IF call.panic THEN "panic" ELSE "ready"
    /\ UNCHANGED <<resolverVars, applierVars, uploaderVars, sessionVars>>

SequenceNext ==
    \/ GetOrAssignSequence

(***************************************************************************)
(*                          THE SESSION CREATOR                            *)
(***************************************************************************)
ExerciseIDs == {1, 2}
VideoIDs == {5, 6}

\* What the check query "SELECT solution_video_id FROM exercises WHERE id =
\* $1" can return: a row, sql.ErrNoRows, or another error of the store.
\* What the function returns: nil, "exercise not found", or the error of
\* the UPDATE.
updateExerciseSolutionWithVideoID(rows, force, exerciseID, videoID, checkFails, execFails) ==
    LET updated == IF exerciseID \in DOMAIN rows
                   THEN [rows EXCEPT ![exerciseID] = videoID]
                   ELSE rows
        exec == IF execFails
                THEN [returned |-> "exec error", rows |-> rows]
                ELSE [returned |-> "nil", rows |-> updated]
    IN  IF force THEN exec
        ELSE IF checkFails THEN exec
        ELSE IF exerciseID \notin DOMAIN rows
        THEN [returned |-> "exercise not found", rows |-> rows]
        ELSE IF rows[exerciseID] > 0
        THEN [returned |-> "nil", rows |-> rows]
        ELSE exec

\* One call of updateExerciseSolutionWithVideoID.
UpdateExerciseSolution ==
    /\ vpc = "ready"
    /\ \E exerciseID \in ExerciseIDs, videoID \in VideoIDs,
          checkFails \in BOOLEAN, execFails \in BOOLEAN :
          LET call == updateExerciseSolutionWithVideoID(
                          solutions, forceReplaceVideo, exerciseID, videoID,
                          checkFails, execFails)
          IN  /\ solutions' = call.rows
              /\ update' = [exerciseID |-> exerciseID, videoID |-> videoID,
                            checked |-> ~forceReplaceVideo,
                            checkFailed |-> ~forceReplaceVideo /\ checkFails,
                            returned |-> call.returned,
                            before |-> solutions, after |-> call.rows]
    /\ UNCHANGED <<forceReplaceVideo, vpc>>
    /\ UNCHANGED <<resolverVars, applierVars, uploaderVars, sequenceVars>>

SessionNext ==
    \/ UpdateExerciseSolution

\* ---- the tools at rest
EmptyUploadStore == [categories |-> <<>>, groups |-> <<>>, exercises |-> <<>>]

UploaderIdle ==
    /\ edb = EmptyUploadStore
    /\ etx = EmptyUploadStore
    /\ groupSeq = 0
    /\ exerciseSeq = 0
    /\ jsonProblems = <<>>
    /\ epos = 0
    /\ epc = "idle"
    /\ ecall = NoExerciseCall(EmptyUploadStore)
    /\ settled = <<>>

SequenceIdle ==
    /\ sequenceFile = AbsentFile
    /\ calls = <<>>
    /\ qpc = "idle"

NoUpdate(rows) ==
    [exerciseID |-> 0, videoID |-> 0, checked |-> FALSE,
     checkFailed |-> FALSE, returned |-> "none", before |-> rows,
     after |-> rows]

SessionIdle ==
    /\ solutions = <<>>
    /\ forceReplaceVideo = FALSE
    /\ update = NoUpdate(<<>>)
    /\ vpc = "idle"

ToolsIdle == UploaderIdle /\ SequenceIdle /\ SessionIdle

\* ---- the stores and artifacts the applier is started on
CategoryOf(problemID) == 10 + problemID

\* How the problems are spread over the initial groups: all in group 1, or
\* alternating between groups 1 and 2.
GroupLayouts ==
    {[p \in Problems |-> 1], [p \in Problems |-> IF p % 2 = 1 THEN 1 ELSE 2]}

\* The rows problem p can have in group g: a row that is not live (absent for
\* every query of the applier), or a live row.
ExerciseRows(p, g) ==
    {[live |-> FALSE, category_id |-> CategoryOf(p), exercise_group_id |-> g,
      is_representative |-> FALSE, has_video |-> FALSE]}
    \cup
    {[live |-> TRUE, category_id |-> CategoryOf(p), exercise_group_id |-> g,
      is_representative |-> r, has_video |-> v] : r \in BOOLEAN, v \in BOOLEAN}

InitialGroups ==
    [g \in InitialGroupIDs |-> [category_id |-> CategoryOf(g), deleted |-> FALSE]]

Stores ==
    UNION {{[groups |-> InitialGroups, exercises |-> e] :
               e \in {f \in [Problems -> UNION {ExerciseRows(p, layout[p]) :
                                                   p \in Problems}] :
                         \A p \in Problems : f[p] \in ExerciseRows(p, layout[p])}} :
           layout \in GroupLayouts}

\* The ascending list of the elements of a set of integers.
RECURSIVE Ascending(_)
Ascending(S) ==
    IF S = {} THEN <<>>
    ELSE LET least == CHOOSE x \in S : \A y \in S : x <= y
         IN  <<least>> \o Ascending(S \ {least})

\* The records of an artifact, reduced to the fields the applier reads.
ApplierRecords ==
    {[ProblemIDs |-> m,
      CrossingGroups |-> [k \in DOMAIN c |-> [ID |-> c[k]]]] :
        m \in DistinctSeqs(Problems, MaxProblemID),
        c \in {Ascending(S) : S \in SUBSET InitialGroupIDs}}

\* The records of the two-record artifacts: one problem or every problem (in
\* ascending order), crossing no group or every initial group.
ChunkRecords ==
    {r \in ApplierRecords :
        /\ \/ Len(r.ProblemIDs) = 1
           \/ r.ProblemIDs = Ascending(Problems)
        /\ Len(r.CrossingGroups) \in {0, Cardinality(InitialGroupIDs)}}

Artifacts ==
    {<<r>> : r \in ApplierRecords}
    \cup {<<r1, r2>> : r1 \in ChunkRecords, r2 \in ChunkRecords}

EmptyStore == [groups |-> <<>>, exercises |-> <<>>]

ApplierIdle ==
    /\ db = EmptyStore
    /\ tx = EmptyStore
    /\ nextval = 0
    /\ artifact = <<>>
    /\ i = 0
    /\ done = 0
    /\ apc = "idle"
    /\ chunkStart = EmptyStore
    /\ last = NoCall(EmptyStore)
    /\ runs = <<>>
    /\ opened = <<>>

ResolverIdle ==
    /\ existingGroups = <<>>
    /\ problemIndex = <<>>
    /\ newGroups = <<>>
    /\ nextGroupID = 0
    /\ jobs = <<>>
    /\ jobsClosed = FALSE
    /\ resultsChan = <<>>
    /\ resultsClosed = FALSE
    /\ wg = 0
    /\ workers = <<>>
    /\ sent = 0
    /\ mpc = "idle"
    /\ results = <<>>

InitApplier ==
    /\ db \in Stores
    /\ tx = db
    /\ nextval = 1 + Cardinality(InitialGroupIDs)
    /\ artifact \in Artifacts
    /\ i = 0
    /\ done = 0
    /\ apc = "loop"
    /\ chunkStart = db
    /\ last = NoCall(db)
    /\ runs = <<>>
    /\ opened = <<>>
    /\ ResolverIdle
    /\ ToolsIdle

SpecApplier == InitApplier /\ [][ApplierNext]_vars

\* ---- artifacts of several chunks
\* Stores with every problem in group 1, live or not, no flag set.
ChunkStores ==
    {[groups |-> InitialGroups,
      exercises |-> [p \in Problems |->
          [live |-> p \in alive, category_id |-> CategoryOf(p),
           exercise_group_id |-> 1, is_representative |-> FALSE,
           has_video |-> FALSE]]] : alive \in SUBSET Problems}

\* Two records: problem 1 crossing nothing, the last problem crossing
\* group 1.
LongRecords ==
    {[ProblemIDs |-> <<1>>, CrossingGroups |-> <<>>],
     [ProblemIDs |-> <<MaxProblemID>>, CrossingGroups |-> <<[ID |-> 1]>>]}

\* Artifacts of up to three chunks, the empty artifact included.
LongArtifacts == SeqsUpTo(LongRecords, 2 * batchSize + 1)

InitChunks ==
    /\ db \in ChunkStores
    /\ tx = db
    /\ nextval = 1 + Cardinality(InitialGroupIDs)
    /\ artifact \in LongArtifacts
    /\ i = 0
    /\ done = 0
    /\ apc = "loop"
    /\ chunkStart = db
    /\ last = NoCall(db)
    /\ runs = <<>>
    /\ opened = <<>>
    /\ ResolverIdle
    /\ ToolsIdle

SpecChunks == InitChunks /\ [][ApplierNext]_vars

\* The applier run twice in a row on the same artifact.
RerunNext ==
    \/ BeginTx
    \/ BeginTxFails
    \/ ProcessResult
    \/ ProcessResultFails
    \/ CommitBatch
    \/ CommitFails
    \/ RollbackBatch
    \/ UploadReturn
    \/ UploadAgain

SpecRerun == InitApplier /\ [][RerunNext]_vars

\* ---- the inputs the resolver is started on
\* The snapshot group with id g: it holds problems g and g+1 (those that
\* exist), its representative is g, with a video when g is even.
SnapshotGroup(g) ==
    ExerciseGroup(g, SelectSeq(<<g, g + 1>>, LAMBDA p : p \in Problems), g,
                  TRUE, g % 2 = 0)

ResolverSnapshots ==
    {[g \in S |-> SnapshotGroup(g)] : S \in SUBSET Problems}

Groupings == DistinctSeqs(Problems, MaxProblemID)

InitResolver ==
    /\ existingGroups \in ResolverSnapshots
    /\ problemIndex = buildProblemIndex(existingGroups)
    /\ newGroups \in SeqsUpTo(Groupings, MaxGroupings)
    /\ nextGroupID = getMaxGroupID(existingGroups) + 1
    /\ jobs = <<>>
    /\ jobsClosed = FALSE
    /\ resultsChan = <<>>
    /\ resultsClosed = FALSE
    /\ wg = NumWorkers
    /\ workers = [w \in Workers |-> IdleWorker("receive")]
    /\ sent = 0
    /\ mpc = "send"
    /\ results = <<>>
    /\ ApplierIdle
    /\ ToolsIdle

ResolverNext ==
    \/ SendJob
    \/ CloseJobs
    \/ \E w \in Workers : WorkerReceive(w)
    \/ \E w \in Workers : ReadNextGroupID(w)
    \/ \E w \in Workers : IncrementLoad(w)
    \/ \E w \in Workers : IncrementStore(w)
    \/ \E w \in Workers : SendResult(w)
    \/ \E w \in Workers : WorkerExit(w)
    \/ CloseResults
    \/ CollectResult
    \/ SortAndReturn

SpecResolver == InitResolver /\ [][ResolverNext]_vars

\* ---- the pool on snapshots whose groups can tie
\* Group g holds problem g alone, which is its representative; it has a
\* video when g is even or when every representative has one.
SingletonGroup(g, everyVideo) ==
    ExerciseGroup(g, <<g>>, g, TRUE, everyVideo \/ g % 2 = 0)

SingletonSnapshots ==
    {[g \in S |-> SingletonGroup(g, everyVideo)] :
        S \in SUBSET Problems, everyVideo \in BOOLEAN}

\* Group g holds problem g alone and has no representative (and so no video
\* flag).
BareGroup(g) == ExerciseGroup(g, <<g>>, 0, FALSE, FALSE)

PoolSnapshots ==
    SingletonSnapshots \cup {[g \in S |-> BareGroup(g)] : S \in SUBSET Problems}

\* The groupings of these runs: none of the problems, the last one, or all
\* of them.
PoolGroupings == {<<>>, <<MaxProblemID>>, Ascending(Problems)}

InitResolverPool ==
    /\ existingGroups \in PoolSnapshots
    /\ problemIndex = buildProblemIndex(existingGroups)
    /\ newGroups \in {<<>>} \cup {<<a>> : a \in PoolGroupings}
                     \cup {<<a, b>> : a \in PoolGroupings, b \in PoolGroupings}
    /\ nextGroupID = getMaxGroupID(existingGroups) + 1
    /\ jobs = <<>>
    /\ jobsClosed = FALSE
    /\ resultsChan = <<>>
    /\ resultsClosed = FALSE
    /\ wg = NumWorkers
    /\ workers = [w \in Workers |-> IdleWorker("receive")]
    /\ sent = 0
    /\ mpc = "send"
    /\ results = <<>>
    /\ ApplierIdle
    /\ ToolsIdle

SpecResolverPool == InitResolverPool /\ [][ResolverNext]_vars

\* The pool on the empty snapshot and on the snapshot with a group for
\* every problem, under a scheduler that does not stop while some goroutine
\* can take a step.
InitResolverFair ==
    /\ InitResolverPool
    /\ existingGroups \in {<<>>, [g \in Problems |-> BareGroup(g)]}

FairSpecResolver ==
    InitResolverFair /\ [][ResolverNext]_vars /\ WF_vars(ResolverNext)

\* ---- one call of processGroup on a loaded snapshot
\* The lists of at most two elements of S; an element may be repeated.
ShortLists(S) ==
    {<<>>} \cup {<<x>> : x \in S} \cup {<<x, y>> : x \in S, y \in S}

\* The ids of the groups of these snapshots.
LoadedGroupIDs == {1, 2}

\* The groups loadExerciseGroups can build under id g: any list of problem
\* ids, and the three representative columns independent of each other and
\* of the list (the video column only where the resolver reads it).
LoadedGroups(g) ==
    {e \in {ExerciseGroup(g, m, rep, hasRep, video) :
                m \in ShortLists(Problems), rep \in 0..MaxProblemID,
                hasRep \in BOOLEAN, video \in BOOLEAN} :
        e.RepresentativeHasVideo =>
            e.HasRepresentative /\ e.Representative > 0}

LoadedSnapshots ==
    UNION {{f \in [S -> UNION {LoadedGroups(g) : g \in S}] :
               \A g \in S : f[g] \in LoadedGroups(g)} :
           S \in SUBSET LoadedGroupIDs}

\* main: buildProblemIndex(groups).
BuildIndex ==
    /\ mpc = "index"
    /\ problemIndex' = buildProblemIndex(existingGroups)
    /\ mpc' = "group"
    /\ UNCHANGED <<existingGroups, newGroups, nextGroupID, jobs, jobsClosed,
                   resultsChan, resultsClosed, wg, workers, sent, results>>
    /\ UNCHANGED <<applierVars, toolVars>>

\* processGroup called once, by a single goroutine, on the grouping: the
\* whole body, with the map of related groups visited in some order.
ProcessGroup ==
    /\ mpc = "group"
    /\ \E order \in Orders(relatedGroupIDs(newGroups[1], problemIndex)) :
          results' = <<CrossingResult(nextGroupID, newGroups[1],
                          findCrossingGroups(newGroups[1], order,
                                             existingGroups),
                          existingGroups)>>
    /\ nextGroupID' = nextGroupID + 1
    /\ mpc' = "single"
    /\ UNCHANGED <<existingGroups, problemIndex, newGroups, jobs, jobsClosed,
                   resultsChan, resultsClosed, wg, workers, sent>>
    /\ UNCHANGED <<applierVars, toolVars>>

InitProcessGroup ==
    /\ existingGroups \in LoadedSnapshots
    /\ problemIndex = <<>>
    /\ newGroups \in {<<g>> : g \in ShortLists(Problems) \ {<<>>}}
    /\ nextGroupID = getMaxGroupID(existingGroups) + 1
    /\ jobs = <<>>
    /\ jobsClosed = FALSE
    /\ resultsChan = <<>>
    /\ resultsClosed = FALSE
    /\ wg = 0
    /\ workers = <<>>
    /\ sent = 0
    /\ mpc = "index"
    /\ results = <<>>
    /\ ApplierIdle
    /\ ToolsIdle

ProcessGroupNext ==
    \/ BuildIndex
    \/ ProcessGroup

SpecProcessGroup == InitProcessGroup /\ [][ProcessGroupNext]_vars

\* ---- one call of processGroup on the snapshots of the two-group scenario
\* Group 10 holds problems 1, 2, 3 and group 20 holds 4, 5; each has one of
\* its problems as representative, with or without a video.
ScenarioSnapshots ==
    {(10 :> ExerciseGroup(10, <<1, 2, 3>>, rep10, TRUE, video10))
         @@ (20 :> ExerciseGroup(20, <<4, 5>>, rep20, TRUE, video20)) :
        rep10 \in {1, 2, 3}, video10 \in BOOLEAN,
        rep20 \in {4, 5}, video20 \in BOOLEAN}

\* The snapshot of scenario 2: representatives 2 and 5, both with a video.
Scenario2Snapshot ==
    (10 :> ExerciseGroup(10, <<1, 2, 3>>, 2, TRUE, TRUE))
        @@ (20 :> ExerciseGroup(20, <<4, 5>>, 5, TRUE, TRUE))

InitScenario ==
    /\ existingGroups \in ScenarioSnapshots
    /\ problemIndex = <<>>
    /\ newGroups \in {<<g>> : g \in ShortLists(1..5) \ {<<>>}}
    /\ nextGroupID = getMaxGroupID(existingGroups) + 1
    /\ jobs = <<>>
    /\ jobsClosed = FALSE
    /\ resultsChan = <<>>
    /\ resultsClosed = FALSE
    /\ wg = 0
    /\ workers = <<>>
    /\ sent = 0
    /\ mpc = "index"
    /\ results = <<>>
    /\ ApplierIdle
    /\ ToolsIdle

SpecScenario == InitScenario /\ [][ProcessGroupNext]_vars

\* ---- the stores and problems the exercise uploader is started on
\* Concept 1 has a category; concept 2 has none.
UploadCategories == [c \in {1} |-> 11]

\* The exercise_groups row of concept 1 and group code 1.
CodedGroup(representativeID) ==
    [conceptID |-> 1, groupCode |-> 1, category_id |-> 11,
     representative_id |-> representativeID, live |-> TRUE]

\* The exercises row of problem 1, in group 1.
StoredExercise(references) ==
    [problemID |-> 1, exercise_group_id |-> 1, category_id |-> 11,
     references |-> references, live |-> TRUE]

\* An empty store; a store with the group of code 1 and nothing in it; and
\* stores where problem 1 is in that group as its representative.
UploadStores ==
    {[categories |-> UploadCategories, groups |-> <<>>, exercises |-> <<>>],
     [categories |-> UploadCategories, groups |-> <<CodedGroup(Null)>>,
      exercises |-> <<>>]}
    \cup
    {[categories |-> UploadCategories, groups |-> <<CodedGroup(1)>>,
      exercises |-> <<StoredExercise(references)>>] :
        references \in {<<>>, <<"a">>, <<"a", "a">>}}

\* A problem of the JSON file, reduced to the fields processExercise reads;
\* references is what the tagTop and basename steps compute (main.go:153-181).
Problem(type, conceptId, groupCode, id, answerIsNumber, references) ==
    [type |-> type, conceptId |-> conceptId, groupCode |-> groupCode,
     id |-> id, answerIsNumber |-> answerIsNumber, references |-> references]

\* Well-formed problems: ids 1 and 2, with or without group code 1.
GoodProblems ==
    {Problem("SHORT_ANSWER", 1, groupCode, id, FALSE, references) :
        groupCode \in {Missing, 1}, id \in {1, 2},
        references \in {<<"a">>, <<"b">>}}

\* Problems processExercise skips or rejects: another type, no conceptId, a
\* concept without category, no id, a choice answer that is not a number;
\* and a well-formed single-choice problem.
OtherProblems ==
    {Problem("ESSAY", 1, Missing, 2, FALSE, <<>>),
     Problem("SHORT_ANSWER", Missing, 1, 2, FALSE, <<>>),
     Problem("SHORT_ANSWER", 2, 1, 2, FALSE, <<>>),
     Problem("SHORT_ANSWER", 1, Missing, Missing, FALSE, <<>>),
     Problem("SHORT_ANSWER", 1, 1, Missing, FALSE, <<>>),
     Problem("SINGLE_CHOICE", 1, Missing, 2, FALSE, <<>>),
     Problem("SINGLE_CHOICE", 1, 1, 3, TRUE, <<>>)}

\* Lists of up to two problems, and lists of three problems of group code 1
\* of which the middle one has no id.
ProblemLists ==
    SeqsUpTo(GoodProblems \cup OtherProblems, 2)
    \cup
    {<<Problem("SHORT_ANSWER", 1, 1, first, FALSE, <<"a">>),
       Problem("SHORT_ANSWER", 1, Missing, Missing, FALSE, <<>>),
       Problem("SHORT_ANSWER", 1, 1, third, FALSE, <<"b">>)>> :
        first \in {1, 2}, third \in {2, 3}}

InitUploader ==
    /\ edb \in UploadStores
    /\ etx = edb
    /\ groupSeq = 2
    /\ exerciseSeq = 2
    /\ jsonProblems \in ProblemLists
    /\ epos = 0
    /\ epc = "loop"
    /\ ecall = NoExerciseCall(edb)
    /\ settled = <<Settled(edb, FALSE, FALSE)>>
    /\ ResolverIdle
    /\ ApplierIdle
    /\ SequenceIdle
    /\ SessionIdle

SpecUploader == InitUploader /\ [][UploaderNext]_vars

\* ---- the sequence file at the start
InitSequence ==
    /\ sequenceFile = AbsentFile
    /\ calls = <<>>
    /\ qpc = "ready"
    /\ ResolverIdle
    /\ ApplierIdle
    /\ UploaderIdle
    /\ SessionIdle

SpecSequence == InitSequence /\ [][SequenceNext]_vars

\* ---- the exercises the session creator is started on
\* solution_video_id of the exercises that exist: NULL, zero or a video.
SolutionRows ==
    UNION {[ids -> {Null} \cup VideoIDs] : ids \in SUBSET ExerciseIDs}

InitSession ==
    /\ solutions \in SolutionRows
    /\ forceReplaceVideo \in BOOLEAN
    /\ update = NoUpdate(solutions)
    /\ vpc = "ready"
    /\ ResolverIdle
    /\ ApplierIdle
    /\ UploaderIdle
    /\ SequenceIdle

SpecSession == InitSession /\ [][SessionNext]_vars

(***************************************************************************)
(*                               THE CLAIMS                                *)
(***************************************************************************)
\* The records the workers have emitted so far.
Emitted == resultsChan \o results

\* C1: in one run of processGroups the NewGroupID values of the emitted
\* records are pairwise distinct and each is greater than the largest group
\* id of the snapshot, under every interleaving of the workers.
C1_NewGroupIDsDistinct ==
    /\ \A a, b \in DOMAIN Emitted :
          a # b => Emitted[a].NewGroupID # Emitted[b].NewGroupID
    /\ \A a \in DOMAIN Emitted :
          Emitted[a].NewGroupID > getMaxGroupID(existingGroups)

\* ---- the applier
\* The last processResult call returned nil.
Returned == last.kind \in {"empty", "skipped", "applied"}

Members == Range(last.result.ProblemIDs)

CrossedIDs == {last.result.CrossingGroups[k].ID :
                  k \in DOMAIN last.result.CrossingGroups}

\* The live problems of group g that carry the representative flag.
Flagged(st, g) ==
    {p \in DOMAIN st.exercises :
        /\ st.exercises[p].live
        /\ st.exercises[p].exercise_group_id = g
        /\ st.exercises[p].is_representative}

\* Record k of the artifact has a member with a live exercise.  (The applier
\* never changes which exercises are live.)
HasLiveMember(st, k) ==
    \E p \in Range(artifact[k].ProblemIDs) : Live(st, p)

\* The group rows inserted since the applier started.
InsertedGroups(st) == DOMAIN st.groups \ InitialGroupIDs

\* C2: a chunk is atomic.  While its transaction is open, and after
\* processBatch has returned an error, the committed store is the store the
\* chunk started from; the committed store differs from it only once every
\* record of the chunk has returned nil and the commit has run, and then it
\* holds all the chunk's writes.
C2_ChunkAtomic ==
    /\ apc \in {"batch", "failed", "error"} => db = chunkStart
    /\ db # chunkStart =>
          /\ apc \in {"loop", "done"}
          /\ last.kind # "failed"
          /\ i - batchSize + done = (IF i > Len(artifact) THEN Len(artifact) ELSE i)
          /\ db = tx

\* C2 witness: processBatch has returned an error for the second record of a
\* chunk whose first record had written to the transaction.
C2_Witness ==
    /\ apc = "error"
    /\ done = 1
    /\ last.kind = "failed"
    /\ last.pre # chunkStart
    /\ db = chunkStart

\* C3: a record whose every member is absent from the store is skipped
\* without error: the call changes nothing (no group row, no soft-delete, no
\* problem changed); and when uploadResults returns nil the
\* committed store holds one inserted group row for each of the other records
\* and none for the skipped ones, with the live members of the other records
\* moved to inserted groups.
C3_AbsentRecordSkipped ==
    /\ (Returned /\ Members # {} /\ \A p \in Members : ~Live(last.pre, p)) =>
          /\ last.kind = "skipped"
          /\ last.store = last.pre
          /\ last.newGroupID = 0
    /\ apc = "done" =>
          /\ Cardinality(InsertedGroups(db)) =
                 Cardinality({k \in DOMAIN artifact : HasLiveMember(db, k)})
          /\ \A k \in DOMAIN artifact :
                \A p \in Range(artifact[k].ProblemIDs) :
                    Live(db, p) =>
                        db.exercises[p].exercise_group_id \in InsertedGroups(db)

\* C3 witness: uploadResults has returned nil on a two-record artifact whose
\* first record has no live member and whose second record was applied.
C3_Witness ==
    /\ apc = "done"
    /\ Len(artifact) = 2
    /\ ~HasLiveMember(db, 1)
    /\ last.kind = "applied"
    /\ Cardinality(InsertedGroups(db)) = 1

\* The members that were, when the call started, the flagged representative
\* of one of the record's crossed groups.
CrossedRepresentatives ==
    {r \in Members :
        /\ Live(last.pre, r)
        /\ last.pre.exercises[r].is_representative
        /\ last.pre.exercises[r].exercise_group_id \in CrossedIDs}

\* C4: when some live member is the flagged representative of a crossed
\* group, the problem flagged representative of the new group is such a
\* crossed representative, one with a video if any of them has one.
C4_CrossedRepresentativeKept ==
    (last.kind = "applied" /\ CrossedRepresentatives # {}) =>
        \E r \in CrossedRepresentatives :
            /\ Flagged(last.store, last.newGroupID) = {r}
            /\ (\E v \in CrossedRepresentatives : last.pre.exercises[v].has_video)
                   => last.pre.exercises[r].has_video

\* C5: when no crossed group's representative is a member (also when the
\* record has no crossing groups), the applier selects a member with a
\* solution video whenever a live member has one, and the maximum member id
\* only when none has.
C5_VideoBeforeHighest ==
    (last.kind = "applied" /\ CrossedRepresentatives = {}) =>
        IF \E p \in Members : Live(last.pre, p) /\ last.pre.exercises[p].has_video
        THEN /\ Live(last.pre, last.representative)
             /\ last.pre.exercises[last.representative].has_video
        ELSE \A p \in Members : p <= last.representative

\* C6: after a record is applied whose selected representative has a live
\* exercise, the live problems of the new group with the representative flag
\* are exactly the selected one.
C6_ExactlyOneRepresentative ==
    (last.kind = "applied" /\ Live(last.store, last.representative)) =>
        Flagged(last.store, last.newGroupID) = {last.representative}

\* C6 witness: a record was applied whose selected representative is live
\* and another live member came with the flag set from its old group.
C6_Witness ==
    /\ last.kind = "applied"
    /\ Live(last.store, last.representative)
    /\ \E p \in Members \ {last.representative} :
          Live(last.pre, p) /\ last.pre.exercises[p].is_representative

\* C7: when the selected representative has no live exercise, applying the
\* record leaves the representative flag of every problem of the new group
\* as it was.
C7_FlagsKeptWithoutRepresentative ==
    (last.kind = "applied" /\ ~Live(last.store, last.representative)) =>
        \A p \in DOMAIN last.store.exercises :
            last.store.exercises[p].exercise_group_id = last.newGroupID =>
                last.store.exercises[p].is_representative =
                    last.pre.exercises[p].is_representative

\* C8: for an applied record every crossing group is soft-deleted before the
\* members are reassigned (after the soft-delete step the crossing groups are
\* deleted and no exercise has moved yet) and is still deleted when the
\* record is done; once uploadResults has returned nil no crossing group of
\* an applied record is live in the committed store.
C8_CrossedGroupsSoftDeleted ==
    /\ last.kind = "applied" =>
          /\ \A g \in CrossedIDs :
                /\ last.marked.groups[g].deleted
                /\ last.store.groups[g].deleted
          /\ last.marked.exercises = last.pre.exercises
          /\ \A p \in Members : Live(last.pre, p) =>
                last.updated.exercises[p].exercise_group_id = last.newGroupID
    /\ apc = "done" =>
          \A k \in DOMAIN artifact : HasLiveMember(db, k) =>
              \A c \in DOMAIN artifact[k].CrossingGroups :
                  db.groups[artifact[k].CrossingGroups[c].ID].deleted

\* C8 witness: a record with crossing groups was applied and committed, and
\* one of the crossed groups was live before.
C8_Witness ==
    /\ apc = "done"
    /\ last.kind = "applied"
    /\ \E g \in CrossedIDs : ~last.pre.groups[g].deleted

\* C9: after a record is applied every member with a live exercise belongs
\* to the group row inserted for the record; the rows of members without a
\* live exercise are unchanged.
C9_LiveMembersReassigned ==
    last.kind = "applied" =>
        /\ last.newGroupID \in DOMAIN last.store.groups \ DOMAIN last.pre.groups
        /\ ~last.store.groups[last.newGroupID].deleted
        /\ \A p \in Members :
              IF Live(last.pre, p)
              THEN last.store.exercises[p].exercise_group_id = last.newGroupID
              ELSE last.store.exercises[p] = last.pre.exercises[p]

\* C9 witness: a record with a live member and a member that is not live was
\* applied.
C9_Witness ==
    /\ last.kind = "applied"
    /\ \E p \in Members : Live(last.pre, p)
    /\ \E p \in Members : ~Live(last.pre, p)

\* The position of the first member with a live exercise.
FirstLivePosition ==
    CHOOSE k \in DOMAIN last.result.ProblemIDs :
        /\ Live(last.pre, last.result.ProblemIDs[k])
        /\ \A j \in 1..(k - 1) : ~Live(last.pre, last.result.ProblemIDs[j])

\* C10: the group row of an applied record has the category of the first
\* member, in the record's order, that has a live exercise; a record is
\* skipped exactly when no member has one.
C10_CategoryOfFirstLiveMember ==
    Returned =>
        /\ last.kind = "applied" <=> \E p \in Members : Live(last.pre, p)
        /\ last.kind = "applied" =>
              last.store.groups[last.newGroupID].category_id =
                  last.pre.exercises[last.result.ProblemIDs[FirstLivePosition]]
                      .category_id

\* C10 witness: an applied record whose first member is not live.
C10_Witness ==
    /\ last.kind = "applied"
    /\ ~Live(last.pre, last.result.ProblemIDs[1])

\* The records of the artifact that are not skipped: some member has a live
\* exercise (in the store the first run left; the applier never changes
\* which exercises are live).
NonSkipped == {k \in DOMAIN artifact : HasLiveMember(runs[1], k)}

\* The group rows the second run added to the store the first run left.
AddedBySecondRun == DOMAIN runs[2].groups \ DOMAIN runs[1].groups

\* C11: the applier is not idempotent.  When uploadResults has returned nil
\* a second time on the same artifact, started on the store the first run
\* left, the store holds one more group row for every non-skipped record
\* (and every row of the first run is still there), so it is not the store
\* the first run left unless every record is skipped.
C11_SecondRunAddsGroups ==
    (apc = "done" /\ Len(runs) = 2) =>
        /\ DOMAIN runs[1].groups \subseteq DOMAIN runs[2].groups
        /\ Cardinality(AddedBySecondRun) = Cardinality(NonSkipped)
        /\ NonSkipped # {} => runs[2] # runs[1]

\* C11 witness: the second run has returned on a two-record artifact with
\* one skipped and one non-skipped record, and has added a group row.
C11_Witness ==
    /\ apc = "done"
    /\ Len(runs) = 2
    /\ Len(artifact) = 2
    /\ Cardinality(NonSkipped) = 1
    /\ AddedBySecondRun # {}
    /\ runs[2] # runs[1]
\* ---- the resolver's single call
\* The record the call of processGroup returned, and its grouping.
Record == results[1]
Grouping == newGroups[1]

\* C12: once buildProblemIndex has run, group id g is listed under problem
\* p in the index exactly when p is among the problem ids of existing group
\* g, for every problem and every group id.
C12_IndexListsExactlyMembers ==
    mpc \in {"group", "single"} =>
        \A p \in Problems, g \in LoadedGroupIDs :
            (p \in DOMAIN problemIndex /\ g \in problemIndex[p])
                <=> (/\ g \in DOMAIN existingGroups
                     /\ p \in Range(existingGroups[g].ProblemIDs))

\* C12 witness: the index is built on a snapshot in which some problem is
\* in two groups, not in first place in one of them, and a group holds an
\* id twice.
C12_Witness ==
    /\ mpc = "group"
    /\ \E p \in DOMAIN problemIndex : Cardinality(problemIndex[p]) = 2
    /\ \E g \in DOMAIN existingGroups :
          /\ Len(existingGroups[g].ProblemIDs) = 2
          /\ existingGroups[g].ProblemIDs[1] # existingGroups[g].ProblemIDs[2]
    /\ \E g \in DOMAIN existingGroups :
          /\ Len(existingGroups[g].ProblemIDs) = 2
          /\ existingGroups[g].ProblemIDs[1] = existingGroups[g].ProblemIDs[2]
\* The position of the first occurrence of v in s.
FirstIndex(s, v) ==
    CHOOSE k \in DOMAIN s : s[k] = v /\ \A j \in 1..(k - 1) : s[j] # v

\* The list holds exactly the ids that are in both g and e, each once, in
\* the order of their first occurrence in e.
IsIntersectionOf(list, g, e) ==
    /\ Range(list) = Range(g) \cap Range(e)
    /\ \A a, b \in DOMAIN list : a # b => list[a] # list[b]
    /\ \A a, b \in DOMAIN list :
          a < b => FirstIndex(e, list[a]) < FirstIndex(e, list[b])

\* C13: for the grouping G of the call and every existing group E, lists
\* with repeated ids included, findIntersection(G, E.ProblemIDs) holds
\* exactly the ids that are in both, each once, in the order of their first
\* occurrence in E.ProblemIDs; so does the Intersection of every
\* CrossingGroup of the record.
C13_IntersectionInExistingOrder ==
    mpc = "single" =>
        /\ \A g \in DOMAIN existingGroups :
              IsIntersectionOf(
                  findIntersection(Grouping, existingGroups[g].ProblemIDs),
                  Grouping, existingGroups[g].ProblemIDs)
        /\ \A k \in DOMAIN Record.CrossingGroups :
              IsIntersectionOf(
                  Record.CrossingGroups[k].Intersection, Grouping,
                  existingGroups[Record.CrossingGroups[k].ID].ProblemIDs)

\* C13 witness: the record has a crossing group that holds a shared id
\* twice, and one whose intersection has two ids in the order opposite to
\* the grouping's.
C13_Witness ==
    /\ mpc = "single"
    /\ \E k \in DOMAIN Record.CrossingGroups :
          LET e == existingGroups[Record.CrossingGroups[k].ID].ProblemIDs
          IN  /\ Len(e) = 2
              /\ e[1] = e[2]
              /\ Record.CrossingGroups[k].Intersection = <<e[1]>>
    /\ \E k \in DOMAIN Record.CrossingGroups :
          /\ Len(Record.CrossingGroups[k].Intersection) = 2
          /\ Record.CrossingGroups[k].Intersection # Grouping
          /\ Len(Grouping) = 2
\* The ids of the CrossingGroups of the record.
CrossingIDs ==
    {Record.CrossingGroups[k].ID : k \in DOMAIN Record.CrossingGroups}

\* Existing group g and the grouping share a problem id.
Shares(g) ==
    /\ g \in DOMAIN existingGroups
    /\ Range(Grouping) \cap Range(existingGroups[g].ProblemIDs) # {}

\* C14: the CrossingGroups of the record for grouping G have an entry for
\* existing group E exactly when G and E.ProblemIDs share a problem id;
\* no group has two entries, and the entry of E carries the ids common to
\* G and E.ProblemIDs.
C14_CrossingGroupsAreTheSharingGroups ==
    mpc = "single" =>
        /\ \A g \in LoadedGroupIDs : g \in CrossingIDs <=> Shares(g)
        /\ \A j, k \in DOMAIN Record.CrossingGroups :
              j # k => Record.CrossingGroups[j].ID # Record.CrossingGroups[k].ID
        /\ \A k \in DOMAIN Record.CrossingGroups :
              Range(Record.CrossingGroups[k].Intersection) =
                  Range(Grouping) \cap
                  Range(existingGroups[Record.CrossingGroups[k].ID].ProblemIDs)

\* C14 witness: of two non-empty existing groups one holds a problem of the
\* grouping, twice over, and the other holds none; the record has the one
\* entry.
C14_Witness ==
    /\ mpc = "single"
    /\ DOMAIN existingGroups = LoadedGroupIDs
    /\ Len(Record.CrossingGroups) = 1
    /\ Len(Record.CrossingGroups[1].Intersection) = 1
    /\ Len(existingGroups[Record.CrossingGroups[1].ID].ProblemIDs) = 2
    /\ \E g \in DOMAIN existingGroups :
          ~Shares(g) /\ existingGroups[g].ProblemIDs # <<>>
\* C15: the BaseGroupID of the record is the largest ID among the record's
\* CrossingGroups (it is one of them and none is larger), and it is 0
\* exactly when the record has no crossing group.
C15_BaseGroupIDIsLargestCrossing ==
    mpc = "single" =>
        /\ Record.BaseGroupID = 0 <=> Record.CrossingGroups = <<>>
        /\ Record.CrossingGroups # <<>> =>
              /\ Record.BaseGroupID \in CrossingIDs
              /\ \A g \in CrossingIDs : g <= Record.BaseGroupID

\* C15 witness: the record has two crossing groups, the one with the larger
\* id visited first.
C15_Witness ==
    /\ mpc = "single"
    /\ Len(Record.CrossingGroups) = 2
    /\ Record.CrossingGroups[1].ID > Record.CrossingGroups[2].ID
    /\ Record.BaseGroupID = Record.CrossingGroups[1].ID
\* ---- the resolver's pool
\* C16: the list processGroups returns is in strictly ascending NewGroupID
\* order, and when the sort has run every worker has finished and every
\* record (one per non-empty grouping) has been collected.
C16_ReturnedStrictlyAscending ==
    mpc = "returned" =>
        /\ \A a, b \in DOMAIN results :
              a < b => results[a].NewGroupID < results[b].NewGroupID
        /\ \A w \in Workers : workers[w].pc = "exited"
        /\ resultsChan = <<>>
        /\ Len(results) =
               Cardinality({k \in DOMAIN newGroups : newGroups[k] # <<>>})
\* The (member list, representative) pairs of the returned records.
ReturnedPairs ==
    {<<results[k].ProblemIDs, results[k].Representative>> : k \in DOMAIN results}

\* The pairs of the run in which every grouping's related groups are
\* visited in ascending id order.
AscendingRunPairs ==
    {<<g, selectBestRepresentative(g,
             findCrossingGroups(g,
                 Ascending(relatedGroupIDs(g, problemIndex)),
                 existingGroups).crossingGroups,
             existingGroups).Representative>> :
        g \in Range(newGroups) \ {<<>>}}

\* C17 as stated: the set of (member list, representative) pairs of a run
\* is fixed by the snapshot and the batch, so every run returns the pairs
\* of the run that visits the related groups in ascending order.
C17_PairsFixedByInput ==
    mpc = "returned" => ReturnedPairs = AscendingRunPairs

\* The representatives of the existing groups that share a problem with g
\* and whose representative is a member of g; hasVideo selects those with
\* a video.
CrossedRepresentativesOf(g, videoOnly) ==
    {existingGroups[e].Representative :
        e \in {h \in DOMAIN existingGroups :
                  /\ Range(existingGroups[h].ProblemIDs) \cap Range(g) # {}
                  /\ existingGroups[h].HasRepresentative
                  /\ existingGroups[h].Representative \in Range(g)
                  /\ videoOnly => existingGroups[h].RepresentativeHasVideo}}

\* The representatives some iteration order of the crossing groups selects
\* for g: any crossed representative in g with a video; if there is none,
\* any crossed representative in g; if there is none, the largest id of g.
AllowedRepresentatives(g) ==
    IF CrossedRepresentativesOf(g, TRUE) # {}
    THEN CrossedRepresentativesOf(g, TRUE)
    ELSE IF CrossedRepresentativesOf(g, FALSE) # {}
         THEN CrossedRepresentativesOf(g, FALSE)
         ELSE {p \in Range(g) : \A q \in Range(g) : q <= p}

\* C17, amended: for every number of workers and every interleaving the
\* returned records are the non-empty groupings of the batch, each as often
\* as the batch has it, and the representative of each is one that the
\* selection policy allows for its member list: fixed by the snapshot when
\* the crossed representatives among the members do not tie, and one of
\* the tied ones, as the map iteration order decides, when they do.
C17_PairsFixedUpToTies ==
    mpc = "returned" =>
        /\ \A k \in DOMAIN results :
              /\ results[k].ProblemIDs \in Range(newGroups) \ {<<>>}
              /\ results[k].Representative \in
                     AllowedRepresentatives(results[k].ProblemIDs)
        /\ \A g \in Range(newGroups) \ {<<>>} :
              Cardinality({k \in DOMAIN results : results[k].ProblemIDs = g})
                  = Cardinality({k \in DOMAIN newGroups : newGroups[k] = g})

\* C17 witness: a run has returned two records with the same member list
\* and different representatives, both crossed representatives that tie.
C17_Witness ==
    /\ mpc = "returned"
    /\ Len(results) = 2
    /\ results[1].ProblemIDs = results[2].ProblemIDs
    /\ results[1].Representative # results[2].Representative
    /\ Cardinality(AllowedRepresentatives(results[1].ProblemIDs)) > 1
\* ---- the resolver's selection, on the record of the single call
\* The existing group of the k-th CrossingGroup of the record.
Crossed(k) == existingGroups[Record.CrossingGroups[k].ID]

\* The positions in CrossingGroups of the groups whose representative is a
\* member of the grouping, and those of them whose representative has a
\* video.
CandidatePositions ==
    {k \in DOMAIN Record.CrossingGroups :
        /\ Crossed(k).HasRepresentative
        /\ Crossed(k).Representative \in Range(Grouping)}

VideoPositions ==
    {k \in CandidatePositions : Crossed(k).RepresentativeHasVideo}

Least(S) == CHOOSE x \in S : \A y \in S : x <= y

\* C19: when some crossed group's representative that is a member of G has
\* a video, the selected representative is that of the first such group in
\* CrossingGroups order; when crossed representatives are members of G but
\* none has a video, it is that of the first of them in that order.
C19_FirstCandidateVideoFirst ==
    mpc = "single" =>
        /\ VideoPositions # {} =>
              Record.Representative =
                  Crossed(Least(VideoPositions)).Representative
        /\ (CandidatePositions # {} /\ VideoPositions = {}) =>
              Record.Representative =
                  Crossed(Least(CandidatePositions)).Representative

\* C19 witness: the first crossing group's representative is a member
\* without a video, the second one's is another member with a video, and
\* the second is selected.
C19_Witness ==
    /\ mpc = "single"
    /\ CandidatePositions = {1, 2}
    /\ VideoPositions = {2}
    /\ Crossed(1).Representative # Crossed(2).Representative
    /\ Record.Representative = Crossed(2).Representative
\* The record's representative was selected among the crossed
\* representatives (and not by the highest-id fallback).
ThroughCandidatePath ==
    Record.SelectionReason \in {ReasonRepWithVideo, ReasonRepCarried}

\* C20: whenever some crossed group has a representative that is a member
\* of G, the selected representative is one of those crossed
\* representatives, selected as such and not by the highest-id fallback;
\* and a representative selected as a crossed representative is always a
\* member of G that is the representative of a crossed group.
C20_CrossedRepresentativeInGroupWins ==
    mpc = "single" =>
        /\ CandidatePositions # {} =>
              /\ ThroughCandidatePath
              /\ \E k \in CandidatePositions :
                    Record.Representative = Crossed(k).Representative
        /\ ThroughCandidatePath =>
              /\ Record.Representative \in Range(Grouping)
              /\ \E k \in CandidatePositions :
                    Record.Representative = Crossed(k).Representative

\* C20 witness: the first crossing group has a representative that is not
\* a member of the grouping, the second one's is a member and is selected.
C20_Witness ==
    /\ mpc = "single"
    /\ Len(Record.CrossingGroups) = 2
    /\ Crossed(1).HasRepresentative
    /\ Crossed(1).Representative > 0
    /\ Crossed(1).Representative \notin Range(Grouping)
    /\ CandidatePositions = {2}
    /\ ThroughCandidatePath
    /\ Record.Representative = Crossed(2).Representative
\* The positions in CrossingGroups of the groups that have a representative
\* the resolver can use (the flag set and a positive id).
RepresentedPositions ==
    {k \in DOMAIN Record.CrossingGroups :
        Crossed(k).HasRepresentative /\ Crossed(k).Representative > 0}

\* C21: when no crossed group's representative is a member of G, the
\* selected representative is the largest problem id of G, whether G
\* crosses no group, crosses groups none of which has a representative, or
\* crosses groups whose representatives are all outside G; the sub-case
\* shows in the reason tag only.
C21_FallbackIsHighestMember ==
    (mpc = "single" /\ CandidatePositions = {}) =>
        /\ Record.Representative \in Range(Grouping)
        /\ \A p \in Range(Grouping) : p <= Record.Representative
        /\ Record.SelectionReason =
              (IF Record.CrossingGroups = <<>> THEN ReasonNoCrossing
               ELSE IF RepresentedPositions = {} THEN ReasonNoRepresentative
               ELSE ReasonRepNotInGroup)

\* C21 witness: the grouping crosses a group without representative, its
\* first member is not its largest, and the largest is selected.
C21_Witness ==
    /\ mpc = "single"
    /\ Record.CrossingGroups # <<>>
    /\ RepresentedPositions = {}
    /\ Len(Grouping) = 2
    /\ Grouping[1] < Grouping[2]
    /\ Record.Representative = Grouping[2]
    /\ Record.SelectionReason = ReasonNoRepresentative
\* C22: on the snapshot with group 10 = {1,2,3}, representative 2 with a
\* video, and group 20 = {4,5}, representative 5 with a video, the record
\* for grouping [2,4] has groups 10 and 20 as its crossing groups, each
\* once, and representative 2, in whichever order the two were visited.
C22_Scenario2SelectsTwo ==
    (mpc = "single" /\ existingGroups = Scenario2Snapshot
                     /\ Grouping = <<2, 4>>) =>
        /\ Len(Record.CrossingGroups) = 2
        /\ CrossingIDs = {10, 20}
        /\ Record.Representative = 2

\* C22 witness: the record of scenario 2 with group 20 visited before
\* group 10.
C22_Witness ==
    /\ mpc = "single"
    /\ existingGroups = Scenario2Snapshot
    /\ Grouping = <<2, 4>>
    /\ Record.CrossingGroups[1].ID = 20
    /\ Record.CrossingGroups[2].ID = 10
    /\ Record.Representative = 2
\* ---- the resolver's pool, continued
\* The positions of the batch that hold grouping g, and the positions of
\* the returned list whose record has member list g.
BatchPositions(g) == {k \in DOMAIN newGroups : newGroups[k] = g}
RecordPositions(g) == {k \in DOMAIN results : results[k].ProblemIDs = g}

\* C23: when processGroups returns, the list has exactly one record for
\* each non-empty grouping of the batch, with that grouping as member list,
\* and none for an empty grouping; this holds also when a crossed group
\* has no representative or its representative has no video.
C23_OneRecordPerNonEmptyGrouping ==
    mpc = "returned" =>
        /\ \A k \in DOMAIN results : results[k].ProblemIDs # <<>>
        /\ \A k \in DOMAIN results : BatchPositions(results[k].ProblemIDs) # {}
        /\ \A g \in Range(newGroups) \ {<<>>} :
              Cardinality(RecordPositions(g)) = Cardinality(BatchPositions(g))
        /\ Len(results) = Cardinality({k \in DOMAIN newGroups :
                                          newGroups[k] # <<>>})

\* C23 witness: a batch of an empty grouping and a grouping that crosses a
\* group without representative has returned its one record.
C23_Witness ==
    /\ mpc = "returned"
    /\ Len(newGroups) = 2
    /\ <<>> \in Range(newGroups)
    /\ Len(results) = 1
    /\ results[1].CrossingGroups # <<>>
    /\ results[1].SelectionReason = ReasonNoRepresentative
\* ---- the applier's chunks
\* The non-skipped records among the first n of the artifact.
AppliedUpTo(n) == {k \in 1..n : k \in DOMAIN artifact /\ HasLiveMember(db, k)}

\* What holds of the chunks in every state: each chunk starts right after
\* the one opened before it (the first at record 1), so chunks are taken in
\* artifact order and none is opened twice; while a chunk is open, and
\* after it has failed, the committed store holds the group rows of the
\* records of the earlier chunks and none of this chunk; after an error no
\* chunk beyond the failed one has been opened.
ChunksSequential ==
    /\ \A k \in DOMAIN opened :
          opened[k][1] = (IF k = 1 THEN 1 ELSE opened[k - 1][2] + 1)
    /\ apc \in {"batch", "failed", "error"} =>
          /\ Cardinality(InsertedGroups(db)) = Cardinality(AppliedUpTo(i))
          /\ \A k \in DOMAIN opened : opened[k][1] <= i + 1
    /\ apc = "error" => i < Len(artifact) /\ tx = db

\* What holds of every step: a transaction is begun only from the loop
\* (none is open); a failed chunk is followed by the rollback and the error
\* return alone, the committed store and the loop position unchanged; and
\* nothing follows the error return.
ChunkStep ==
    /\ opened' # opened => apc = "loop" /\ apc' = "batch" /\ tx' = db
    /\ apc = "failed" =>
          /\ apc' = "error"
          /\ db' = db
          /\ i' = i
          /\ opened' = opened
    /\ apc # "error"

\* C24: uploadResults applies the chunks one at a time, in artifact order,
\* each in its own transaction; when a chunk fails the error is returned at
\* once: the earlier chunks stay committed, the failed chunk is rolled
\* back, no later chunk is started and the failed chunk is not retried.
C24_ChunksInOrderStopAtError == []ChunksSequential /\ [][ChunkStep]_vars

\* C24 witness: the second of three chunks has failed after writing to its
\* transaction; the first chunk's group rows are committed.
C24_Witness ==
    /\ apc = "error"
    /\ i = batchSize
    /\ Len(artifact) > 2 * batchSize
    /\ last.kind = "failed"
    /\ last.store # db
    /\ InsertedGroups(db) # {}
    /\ Len(opened) = 2
\* The number of records of the k-th opened chunk.
ChunkSize(k) == opened[k][2] - opened[k][1] + 1

\* C27: the chunks uploadResults opens are consecutive and in artifact
\* order; every chunk has between 1 and batchSize records and every chunk
\* followed by another has exactly batchSize; when uploadResults returns
\* nil every record is in exactly one chunk; an empty artifact opens no
\* transaction.
C27_ChunksPartitionArtifact ==
    /\ \A k \in DOMAIN opened :
          /\ ChunkSize(k) \in 1..batchSize
          /\ opened[k][2] <= Len(artifact)
          /\ k < Len(opened) =>
                /\ ChunkSize(k) = batchSize
                /\ opened[k + 1][1] = opened[k][2] + 1
    /\ apc = "done" =>
          \A r \in DOMAIN artifact :
              Cardinality({k \in DOMAIN opened :
                              opened[k][1] <= r /\ r <= opened[k][2]}) = 1
    /\ artifact = <<>> => opened = <<>> /\ apc \in {"loop", "done"}

\* C27 witness: an artifact of two full chunks and one more record has
\* been applied in three chunks.
C27_Witness ==
    /\ apc = "done"
    /\ Len(artifact) = 2 * batchSize + 1
    /\ Len(opened) = 3
    /\ ChunkSize(3) = 1
\* ---- the applier's writes
\* From store st to store st2 no group row and no problem row is removed,
\* no problem row is added, no group is un-deleted, and the category of
\* every group and the category, liveness and video of every problem are
\* unchanged.
RowsKept(st, st2) ==
    /\ DOMAIN st.groups \subseteq DOMAIN st2.groups
    /\ DOMAIN st2.exercises = DOMAIN st.exercises
    /\ \A g \in DOMAIN st.groups :
          /\ st2.groups[g].category_id = st.groups[g].category_id
          /\ st.groups[g].deleted => st2.groups[g].deleted
    /\ \A p \in DOMAIN st.exercises :
          /\ st2.exercises[p].live = st.exercises[p].live
          /\ st2.exercises[p].category_id = st.exercises[p].category_id
          /\ st2.exercises[p].has_video = st.exercises[p].has_video

\* The groups soft-deleted between st and st2.
NewlyDeleted(st, st2) ==
    {g \in DOMAIN st.groups : ~st.groups[g].deleted /\ st2.groups[g].deleted}

\* The crossing group ids of record k if it is applied (has a live member),
\* none if it is skipped.
AppliedCrossingIDs(st, k) ==
    IF HasLiveMember(st, k)
    THEN {artifact[k].CrossingGroups[c].ID :
             c \in DOMAIN artifact[k].CrossingGroups}
    ELSE {}

\* A step keeps the rows: of the transaction's store while a record is
\* processed (to its end or to an error), where only crossing groups of
\* that record, if it is applied, become deleted; and of the committed
\* store always, where only crossing groups of applied records of the
\* committed chunk become deleted.
FrameStep ==
    /\ (apc = "batch" /\ tx' # tx) =>
          /\ RowsKept(tx, tx')
          /\ NewlyDeleted(tx, tx') \subseteq AppliedCrossingIDs(tx, i + done + 1)
    /\ RowsKept(db, db')
    /\ NewlyDeleted(db, db') \subseteq
          UNION {AppliedCrossingIDs(db, k) : k \in (i + 1)..ChunkEnd}

\* C25: applying records never removes a group row or a problem row and
\* never changes a category or a problem's content (liveness, video): the
\* writes are inserted group rows, the soft-delete mark of groups, and the
\* group id and representative flag of problems; a group that is not a
\* crossing group of an applied record is never soft-deleted.
C25_OnlyGroupAndFlagWrites == [][FrameStep]_vars

\* C25 witness: uploadResults has returned nil with a group row inserted,
\* one initial group soft-deleted and another one still live.
C25_Witness ==
    /\ apc = "done"
    /\ InsertedGroups(db) # {}
    /\ \E g \in InitialGroupIDs : db.groups[g].deleted
    /\ \E g \in InitialGroupIDs : ~db.groups[g].deleted
    /\ \E p \in DOMAIN db.exercises : ~db.exercises[p].live
\* ---- the resolver's shared state
\* A step leaves the snapshot, the reverse index and the groupings as they
\* are; a step in which a worker moves changes, besides that worker's
\* locals and the synchronisation it takes part in (the job it receives,
\* the WaitGroup), nothing but the id counter and the result queue.
ReadOnlyStep ==
    /\ UNCHANGED <<existingGroups, problemIndex, newGroups>>
    /\ workers' # workers =>
          UNCHANGED <<jobsClosed, resultsClosed, sent, mpc, results>>

\* C26: during the resolution no worker writes to the snapshot of existing
\* groups, the reverse index or the proposed groupings; the state shared
\* and modified by workers is the new-id counter and the result queue.
C26_WorkersReadOnlySnapshot == [][ReadOnlyStep]_vars

\* C26 witness: a worker has raised the id counter and queued its record
\* while another worker is still inside processGroup, on a snapshot that
\* has groups.
C26_Witness ==
    /\ DOMAIN existingGroups # {}
    /\ nextGroupID > getMaxGroupID(existingGroups) + 1
    /\ resultsChan # <<>>
    /\ \E w \in Workers : workers[w].pc \in {"read", "load", "store", "result"}
\* The number of non-empty groupings of the batch.
NonEmptyGroupings ==
    Cardinality({k \in DOMAIN newGroups : newGroups[k] # <<>>})

\* C28: when a run over a snapshot with largest group id M has processed N
\* non-empty groupings, the new group ids of the returned records are
\* exactly M+1 .. M+N, one each, and the counter stands at M+N+1; empty
\* groupings take no id.
C28_IdsAreTheNextN ==
    mpc = "returned" =>
        /\ {results[k].NewGroupID : k \in DOMAIN results} =
               (getMaxGroupID(existingGroups) + 1) ..
               (getMaxGroupID(existingGroups) + NonEmptyGroupings)
        /\ nextGroupID = getMaxGroupID(existingGroups) + NonEmptyGroupings + 1
\* processGroups has returned: the job queue is closed and drained, every
\* worker has exited, the result queue is closed and drained.
Terminated ==
    /\ mpc = "returned"
    /\ jobsClosed
    /\ jobs = <<>>
    /\ \A w \in Workers : workers[w].pc = "exited"
    /\ wg = 0
    /\ resultsClosed
    /\ resultsChan = <<>>

\* C29: processGroups always terminates, for any number of groupings, zero
\* included: once the job queue is closed and drained every worker exits,
\* the result queue is then closed, and the caller returns; no goroutine is
\* left blocked on a queue.
C29_ProcessGroupsTerminates ==
    /\ <>Terminated
    /\ (jobsClosed /\ jobs = <<>>) ~> (wg = 0)
    /\ (wg = 0) ~> resultsClosed

\* C29 witness: processGroups has returned on a batch of no groupings.
C29_Witness ==
    /\ Terminated
    /\ newGroups = <<>>
    /\ results = <<>>
\* C30: the representative of the record of a non-empty grouping G is a
\* member of G, whichever branch selected it (a crossed representative
\* with or without video, or the highest id in one of its three sub-cases).
C30_RepresentativeIsMember ==
    mpc = "single" =>
        /\ Record.Representative \in Range(Grouping)
        /\ Record.SelectionReason \in
              {ReasonRepWithVideo, ReasonRepCarried, ReasonNoCrossing,
               ReasonNoRepresentative, ReasonRepNotInGroup}

\* C30 witness: the grouping crosses a group whose representative is not
\* one of its members and another group without representative; the
\* highest member is selected.
C30_Witness ==
    /\ mpc = "single"
    /\ Len(Record.CrossingGroups) = 2
    /\ Cardinality(RepresentedPositions) = 1
    /\ CandidatePositions = {}
    /\ Record.SelectionReason = ReasonRepNotInGroup
    /\ Record.Representative \in Range(Grouping)

\* ---- representatives per group
\* Every group id carried by a problem of the store has at most one live
\* problem flagged representative.
AtMostOneRepresentative(st) ==
    \A g \in {st.exercises[p].exercise_group_id : p \in DOMAIN st.exercises} :
        Cardinality(Flagged(st, g)) <= 1

\* C31: if every group had at most one live flagged problem in the store a
\* chunk started from, every group (inserted, crossed or untouched) has at
\* most one in the committed store, before and after the chunk's commit;
\* and the store a record leaves in the transaction keeps the property of
\* the store the record found.
C31_AtMostOneRepresentativeKept ==
    /\ AtMostOneRepresentative(chunkStart) => AtMostOneRepresentative(db)
    /\ (last.kind = "applied" /\ AtMostOneRepresentative(last.pre)) =>
          AtMostOneRepresentative(last.store)

\* C31 witness: a chunk is committed whose last record moved two flagged
\* problems, each the only flagged one of its group, into one inserted
\* group.
C31_Witness ==
    /\ apc = "loop"
    /\ i > 0
    /\ db = tx
    /\ db # chunkStart
    /\ last.kind = "applied"
    /\ AtMostOneRepresentative(chunkStart)
    /\ \E p, q \in Members :
          /\ p # q
          /\ Live(last.pre, p) /\ last.pre.exercises[p].is_representative
          /\ Live(last.pre, q) /\ last.pre.exercises[q].is_representative
          /\ db.exercises[p].exercise_group_id = last.newGroupID
          /\ db.exercises[q].exercise_group_id = last.newGroupID

\* ---- records that share a member
\* The live problems that records j and k of the artifact both list.
SharedLive(st, j, k) ==
    {p \in Range(artifact[j].ProblemIDs) \cap Range(artifact[k].ProblemIDs) :
        Live(st, p)}

\* The problems of the store that carry group id g.
MembersOf(st, g) ==
    {p \in DOMAIN st.exercises : st.exercises[p].exercise_group_id = g}

\* C32: when the second record of a chunk has been applied after an applied
\* first record, every live problem the two records share is in the group
\* inserted for the second record and in no group inserted before it (the
\* first record's group no longer contains it); and this is what the
\* committed store holds when uploadResults returns nil.
C32_SharedMemberFollowsLaterRecord ==
    /\ (apc = "batch" /\ done = 2 /\ last.kind = "applied"
            /\ HasLiveMember(tx, i + 1)) =>
          \A p \in SharedLive(tx, i + 1, i + 2) :
              /\ tx.exercises[p].exercise_group_id = last.newGroupID
              /\ last.newGroupID \notin DOMAIN last.pre.groups
              /\ \A g \in InsertedGroups(last.pre) : p \notin MembersOf(tx, g)
    /\ (apc = "done" /\ Len(artifact) = 2 /\ last.kind = "applied"
            /\ HasLiveMember(db, 1)) =>
          \A p \in SharedLive(db, 1, 2) :
              /\ db.exercises[p].exercise_group_id = last.newGroupID
              /\ \A g \in InsertedGroups(last.pre) : p \notin MembersOf(db, g)

\* C32 witness: uploadResults has returned nil on two applied records that
\* share a live problem, which the first record had moved into its inserted
\* group.
C32_Witness ==
    /\ apc = "done"
    /\ Len(artifact) = 2
    /\ last.kind = "applied"
    /\ \E p \in SharedLive(db, 1, 2) :
          /\ last.pre.exercises[p].exercise_group_id \in InsertedGroups(last.pre)
          /\ db.exercises[p].exercise_group_id = last.newGroupID
          /\ db.exercises[p].exercise_group_id \notin DOMAIN last.pre.groups

\* ---- the members a record leaves behind
\* The problems of a crossed group of the last record that the record does
\* not list, in the store the record found.
LeftBehind ==
    {p \in DOMAIN last.pre.exercises :
        /\ p \notin Members
        /\ last.pre.exercises[p].exercise_group_id \in CrossedIDs}

\* C33: an applied record soft-deletes its crossed groups without touching
\* their other members: a problem of a crossed group that the record does
\* not list has the same row afterwards (group id, representative flag and
\* the rest), so it is attached to a soft-deleted group.
C33_OtherMembersStayInCrossedGroup ==
    last.kind = "applied" =>
        \A p \in LeftBehind :
            /\ last.store.exercises[p] = last.pre.exercises[p]
            /\ last.store.groups[last.store.exercises[p].exercise_group_id].deleted

\* C33 witness: an applied record has crossed a live group and left behind
\* a live flagged member of it.
C33_Witness ==
    /\ last.kind = "applied"
    /\ \E p \in LeftBehind :
          /\ Live(last.pre, p)
          /\ last.pre.exercises[p].is_representative
          /\ ~last.pre.groups[last.pre.exercises[p].exercise_group_id].deleted
          /\ last.store.exercises[p].is_representative
          /\ last.store.groups[last.store.exercises[p].exercise_group_id].deleted

\* ---- the groups of the first of two runs
\* The group rows the first run inserted.
AddedByFirstRun == InsertedGroups(runs[1])

\* C34: when uploadResults has returned nil a second time on the same
\* artifact, every group row the first run inserted is still in the store,
\* is not soft-deleted and has no member problem: the second run has moved
\* the members to the groups it inserted itself.
C34_FirstRunGroupsLiveAndEmpty ==
    (apc = "done" /\ Len(runs) = 2) =>
        \A g \in AddedByFirstRun :
            /\ g \in DOMAIN runs[2].groups
            /\ ~runs[2].groups[g].deleted
            /\ MembersOf(runs[2], g) = {}

\* C34 witness: the second run has returned; the first run had inserted a
\* group with a member, and the second run has soft-deleted nothing new
\* but left that group without members.
C34_Witness ==
    /\ apc = "done"
    /\ Len(runs) = 2
    /\ \E g \in AddedByFirstRun :
          /\ MembersOf(runs[1], g) # {}
          /\ MembersOf(runs[2], g) = {}
          /\ ~runs[2].groups[g].deleted
    /\ \E g \in InitialGroupIDs : runs[2].groups[g].deleted

\* ---- the exercise uploader
\* C35: processExercises gives each problem its own transaction.  The
\* committed store is at every moment what the problems finished so far
\* have left; a problem for which processExercise returned an error leaves
\* the committed store as the problem before it left it (its writes are
\* rolled back, the earlier ones stay); the loop never returns the error,
\* and it returns nil only when every problem has been handled.
C35_FailedProblemRolledBackOthersKept ==
    /\ epc \in {"loop", "tx", "commit", "rollback", "done"}
    /\ Len(settled) = epos + 1
    /\ edb = settled[Len(settled)].store
    /\ \A k \in 2..Len(settled) :
          settled[k].failed => settled[k].store = settled[k - 1].store
    /\ epc = "done" => epos = Len(jsonProblems)

\* C35 witness: processExercises has returned nil on three problems: the
\* first was committed with writes, the second failed after writing to its
\* transaction and left the store of the first, the third was committed
\* with writes.
C35_Witness ==
    /\ epc = "done"
    /\ Len(jsonProblems) = 3
    /\ settled[2].store # settled[1].store
    /\ settled[3].failed
    /\ settled[3].wrote
    /\ settled[3].store = settled[2].store
    /\ ~settled[4].failed
    /\ settled[4].store # settled[3].store

\* The problem of the last processExercise call.
CalledProblem == jsonProblems[ecall.v]

\* The last call returned nil for a problem whose id had a live exercise
\* in the store the call found.
ReturnedForExisting ==
    /\ ecall.path # "none"
    /\ ~ecall.err
    /\ CalledProblem.id # Missing
    /\ existingExercises(ecall.pre, CalledProblem.id) # {}

\* Between the two stores no exercise row is added or removed and every
\* exercise row is the same except, for the rows of problem id, in its
\* references.
OnlyReferencesOf(st, st2, id) ==
    /\ DOMAIN st2.exercises = DOMAIN st.exercises
    /\ \A e \in DOMAIN st.exercises :
          IF st.exercises[e].problemID = id
          THEN st2.exercises[e] =
                   [st.exercises[e] EXCEPT
                       !.references = st2.exercises[e].references]
          ELSE st2.exercises[e] = st.exercises[e]

\* C36: a call of processExercise for a problem whose id already has a
\* live exercise changes nothing in the store but that exercise's
\* references: it inserts no exercise row and no exercise-group row,
\* with or without a groupCode.
C36_ExistingProblemOnlyUpdatesReferences ==
    ReturnedForExisting =>
        /\ OnlyReferencesOf(ecall.pre, ecall.store, CalledProblem.id)
        /\ ecall.store.groups = ecall.pre.groups
        /\ ~ecall.group

\* ---- the representative of a group
\* The store processExercises was started on.
StartStore == settled[1].store

\* The representative group g had at the start (Null for a group inserted
\* since).
StartRepresentative(g) ==
    IF g \in DOMAIN StartStore.groups
    THEN StartStore.groups[g].representative_id
    ELSE Null

\* The exercises inserted into group g since the start, in the store st.
InsertedInto(st, g) ==
    {e \in DOMAIN st.exercises \ DOMAIN StartStore.exercises :
        st.exercises[e].exercise_group_id = g}

\* The exercise row the last call inserted.
InsertedExercise == DOMAIN ecall.store.exercises \ DOMAIN ecall.pre.exercises

\* C37: a call that inserts an exercise makes it the representative of its
\* group exactly when the group had none, and leaves the representative of
\* a group that had one; so in the committed store a group that started
\* with a representative still has it, and a group that started without
\* has the first exercise inserted into it (the one with the least id of
\* the sequence), whatever was inserted later.
C37_RepresentativeIsFirstInserted ==
    /\ ecall.path = "inserted" =>
          \A e \in InsertedExercise :
              LET g == ecall.store.exercises[e].exercise_group_id
                  before == IF g \in DOMAIN ecall.pre.groups
                            THEN ecall.pre.groups[g].representative_id
                            ELSE Null
              IN  ecall.store.groups[g].representative_id =
                      IF before = Null THEN e ELSE before
    /\ epc # "idle" =>
          \A g \in DOMAIN edb.groups :
              edb.groups[g].representative_id =
                  IF StartRepresentative(g) # Null THEN StartRepresentative(g)
                  ELSE IF InsertedInto(edb, g) = {} THEN Null
                  ELSE Least(InsertedInto(edb, g))

\* C37 witness: processExercises has returned with two exercises inserted
\* into a group that started without representative; the first of them is
\* the representative.
C37_Witness ==
    /\ epc = "done"
    /\ \E g \in DOMAIN edb.groups :
          /\ StartRepresentative(g) = Null
          /\ Cardinality(InsertedInto(edb, g)) >= 2
          /\ edb.groups[g].representative_id = Least(InsertedInto(edb, g))

\* ---- the sequence file
\* The first call made with the name of call k.
FirstCall(k) == Least({j \in 1..k : calls[j].name = calls[k].name})

\* The names of the calls made before call k.
NamesBefore(k) == {calls[j].name : j \in 1..(k - 1)}

\* C38: starting without a file and as long as no call returns an error
\* of the file system, every call returns for its name the
\* number of distinct names that were seen before the name's first call
\* (so the n names seen map one-to-one onto 0..n-1 in order of first
\* call), and a call with a name seen before leaves the file as it is.
C38_NumbersFollowFirstCalls ==
    (\A j \in DOMAIN calls : ~calls[j].err) =>
        \A k \in DOMAIN calls :
            /\ calls[k].seq = Cardinality(NamesBefore(FirstCall(k)))
            /\ FirstCall(k) < k => calls[k].after = calls[k].before

\* ---- the session creator
\* C39: without -force-replace-video a call never replaces a solution video
\* that is set on the exercise, and returns "exercise not found" when the
\* exercise does not exist; with the option a call that returns nil has
\* put its video on the exercise, whatever was there.
C39_VideoKeptUnlessForced ==
    update.returned # "none" =>
        /\ (/\ ~forceReplaceVideo
            /\ update.exerciseID \in DOMAIN update.before
            /\ update.before[update.exerciseID] > 0) =>
               update.after = update.before
        /\ (~forceReplaceVideo /\ update.exerciseID \notin DOMAIN update.before)
               => update.returned = "exercise not found"
        /\ (/\ forceReplaceVideo
            /\ update.exerciseID \in DOMAIN update.before
            /\ update.returned = "nil") =>
               update.after[update.exerciseID] = update.videoID
====
